---- MODULE Spec2Model ----
(***************************************************************************)
(* TwitchLaser: job store (job_manager.py), orchestrator loop (main.py),   *)
(* layout allocator (layout_manager.py) and streaming controller           *)
(* (laser_controller.py), with the operator handlers of web_server.py.     *)
(*                                                                         *)
(* Lengths are integers in 1/1000 mm (add_placement rounds to 3 decimals). *)
(***************************************************************************)
EXTENDS Integers, Sequences, FiniteSets, TLC

\* ---------------------------------------------------------------- bounds
MaxJobs == 2          \* jobs in the log
ProgLen == 2          \* body commands of a compiled program
MaxRx == 1            \* response lines in flight from the controller
MaxCmds == 1          \* operator single-line commands in one run
MaxPings == 2         \* monitor wake-ups in one run
MaxDrops == 1         \* transport failures in one run

\* ------------------------------------------------------- program constants
NULL == "None"
NOW == "now"                       \* datetime.now().isoformat(), abstracted
ACTIVE_WIDTH == 10000              \* engraving_area.active_width_mm as configured: a 10 mm board
ACTIVE_HEIGHT == 5000              \* engraving_area.active_height_mm as configured: 5 mm
INITIAL_HEIGHT == 5000             \* text_settings.initial_height_mm
PADDING_MM == 1500
GRID_SIZE == 2000
MIN_HEIGHT == 2000
MM == 1000

Names == {"AB"}

\* raw_width returned by _get_ttf_commands(name, text_height): the advance
\* width of the name scaled to the text height (the names of the model are
\* as wide as they are high)
\* a text for which _get_ttf_commands returns no command: none of its
\* characters has a contour in the font, or no font face could be loaded
Glyphless == {"ZWSP"}

\* ... and ([], 1.0, 0, 0) for a text without contours: raw width 0
RawWidth(name, text_height) == IF name \in Glyphless THEN 0 ELSE text_height

EmptySettings == [x_local |-> 0, y_local |-> 0, width |-> 0, height |-> 0,
                  text_height |-> 0]

\* --------------------------------------------------------------- job store
NewJob(id, name, source) ==
    [id |-> id, name |-> name, source |-> source, status |-> "pending",
     timestamp |-> NOW, completed_time |-> NULL, error |-> NULL,
     settings |-> EmptySettings, gcode_file |-> 0]

add_job(js, id, name, source) == <<NewJob(id, name, source)>> \o js

Terminal == {"finished", "failed", "stopped"}

\* job.update(kwargs) on the first job with that id, then completed_time
ApplyUpdate(j, kw) ==
    LET u == [k \in DOMAIN j |-> IF k \in DOMAIN kw THEN kw[k] ELSE j[k]]
    IN  IF "status" \in DOMAIN kw /\ kw["status"] \in Terminal
        THEN [u EXCEPT !.completed_time = NOW]
        ELSE u

\* the update applied without the test on the id
update_job_all(js, id, kw) ==
    [n \in 1..Len(js) |-> ApplyUpdate(js[n], kw)]

update_job(js, id, kw) ==
    [n \in 1..Len(js) |-> IF js[n].id = id THEN ApplyUpdate(js[n], kw) ELSE js[n]]

HasJob(js, id) == \E n \in 1..Len(js) : js[n].id = id

get_job(js, id) == js[CHOOSE n \in 1..Len(js) : js[n].id = id]

\* scanning self.jobs from the front: the pending job added last
get_next_pending_newest(js) ==
    IF \E n \in 1..Len(js) : js[n].status = "pending"
    THEN js[CHOOSE n \in 1..Len(js) :
              /\ js[n].status = "pending"
              /\ \A m \in 1..(n-1) : js[m].status # "pending"].id
    ELSE 0

\* scans reversed(self.jobs): the last index holding a pending job; 0 = None
get_next_pending(js) ==
    IF \E n \in 1..Len(js) : js[n].status = "pending"
    THEN js[CHOOSE n \in 1..Len(js) :
              /\ js[n].status = "pending"
              /\ \A m \in (n+1)..Len(js) : js[m].status # "pending"].id
    ELSE 0

\* ------------------------------------------------------------------ layout
Max(a, b) == IF a >= b THEN a ELSE b

Placement(name, x, y, w, h, th) ==
    [name |-> name, x |-> x, y |-> y, width |-> w, height |-> h,
     text_height_mm |-> th, timestamp |-> NOW]

add_placement(ps, name, x, y, w, h, th) == Append(ps, Placement(name, x, y, w, h, th))

\* the files of the data directory: placements.json, and the archives by number
DATA_FILE == 0

\* save(): json.dump of the placements with the geometry of the board
Document(ps) == [placements |-> ps, width_mm |-> ACTIVE_WIDTH, height_mm |-> ACTIVE_HEIGHT]

\* save() that writes the list without the entry added last
layout_save_stale(dir, ps) ==
    [f \in DOMAIN dir \cup {DATA_FILE} |->
        IF f = DATA_FILE THEN Document(IF ps = <<>> THEN ps ELSE SubSeq(ps, 1, Len(ps) - 1))
        ELSE dir[f]]

layout_save(dir, ps) ==
    [f \in DOMAIN dir \cup {DATA_FILE} |-> IF f = DATA_FILE THEN Document(ps) ELSE dir[f]]

\* load(): data.get('placements', []) of the file if it exists, else []
layout_load(dir) == IF DATA_FILE \in DOMAIN dir THEN dir[DATA_FILE].placements ELSE <<>>

\* the data directory a process starts on: no file yet, or the saved placements
StoredLayout(ps) == IF ps = <<>> THEN <<>> ELSE [f \in {DATA_FILE} |-> Document(ps)]

\* the overlap test without the padding
_is_space_empty_nopad(ps, x, y, width, height) ==
    \A n \in 1..Len(ps) :
        \/ x + width <= ps[n].x
        \/ x >= ps[n].x + ps[n].width
        \/ y + height <= ps[n].y
        \/ y >= ps[n].y + ps[n].height

_is_space_empty(ps, x, y, width, height) ==
    \A n \in 1..Len(ps) :
        \/ x + width + PADDING_MM <= ps[n].x
        \/ x - PADDING_MM >= ps[n].x + ps[n].width
        \/ y + height + PADDING_MM <= ps[n].y
        \/ y - PADDING_MM >= ps[n].y + ps[n].height

\* range(0, int(max) + 1, max(1, int(grid_size)))
\* the scan taken one grid step past the last origin that fits
GridRange_over(max) == {g * GRID_SIZE : g \in 0..((max \div GRID_SIZE) + 1)}

\* range(0, int(max) + 1, int(grid_size)), in mm
GridRange(max) == {g * GRID_SIZE : g \in {k \in 0..(max \div MM) : k * GRID_SIZE <= (max \div MM) * MM}}

\* the shrink step taken at 50 %
Shrunk_half(text_height) == Max(text_height \div 2, MIN_HEIGHT)

\* new_h = max(text_height * 0.8, min_height)
Shrunk(text_height) == Max((text_height * 8) \div 10, MIN_HEIGHT)

\* step 1: force-fit width
RECURSIVE ForceFit(_, _, _)
ForceFit(w, h, th) ==
    IF w > ACTIVE_WIDTH /\ th > MIN_HEIGHT
    THEN ForceFit((w * Shrunk(th)) \div th, (h * Shrunk(th)) \div th, Shrunk(th))
    ELSE <<w, h, th>>

\* every result the shuffled scan can return: <<x, y, text_height>>; the empty
\* set is the refusal (None)
RECURSIVE find_empty_space(_, _, _, _)
find_empty_space(ps, required_width, required_height, text_height) ==
    LET f == ForceFit(required_width, required_height, text_height)
        w == f[1]
        h == f[2]
        th == f[3]
        max_x == ACTIVE_WIDTH - w
        max_y == ACTIVE_HEIGHT - h
        free == IF max_x < 0 \/ max_y < 0 THEN {}
                ELSE {<<x, y, th>> : x \in GridRange(max_x), y \in GridRange(max_y)}
        found == {c \in free : _is_space_empty(ps, c[1], c[2], w, h)}
    IN  IF w > ACTIVE_WIDTH THEN {}
        ELSE IF found # {} THEN found
        ELSE IF th > MIN_HEIGHT
             THEN find_empty_space(ps, (w * Shrunk(th)) \div th,
                                   (h * Shrunk(th)) \div th, Shrunk(th))
             ELSE {}

\* --------------------------------------------------------------- programs
\* a program line is "<code> ; <comment>"; l.split(';')[0].strip() is its code
Line(code, comment) == [code |-> code, comment |-> comment]

CodeOf(l) == l.code

Skeleton == <<"G21", "G90", "M5", "G0 Z", "G0 X Y", "M4 S", "G1 X Y F", "M5",
              "G90", "G0 Z0", "$H", "$MD">>

\* generate(): the header comments naming the text and the bounding box, then
\* the commands (cut to ProgLen commands)
generate(name, x, y, w, h) ==
    IF name \in Glyphless
    THEN <<Line("", <<"Error: No paths generated">>)>>
    ELSE <<Line("", <<"TwitchLaser Engrave", name>>),
           Line("", <<"Bounding Box", x, y, w, h>>)>>
         \o [n \in 1..ProgLen |->
                Line(Skeleton[n], IF n = 1 THEN <<"Millimeters">> ELSE <<>>)]

\* --- generate() in full: the program of a text whose glyphs gave raw_commands
\* a raw command is <<op>> or, for a curve, <<op, fit>>: what the arc fitting
\* of the curve returns (nothing, one line, one arc)
MaxOps == 3
MaxPasses == 2
MaxBold == 2

RawOps == {<<"moveTo">>, <<"lineTo">>} \cup
          {<<op, fit>> : op \in {"qCurveTo", "curveTo"}, fit \in {"none", "line", "arc"}}

\* the lines one raw command appends; a curve before any moveTo has no
\* current_pos and appends nothing
Stroke(cmd, has_pos) ==
    CASE cmd[1] = "moveTo" -> <<Line("G0 X Y", <<>>), Line("M4 S", <<>>)>>
      [] cmd[1] = "lineTo" -> <<Line("G1 X Y F", <<>>)>>
      [] OTHER -> IF ~has_pos \/ cmd[2] = "none" THEN <<>>
                  ELSE IF cmd[2] = "line" THEN <<Line("G1 X Y F", <<>>)>>
                  ELSE <<Line("G2 X Y I J F", <<>>)>>

RECURSIVE Strokes(_, _)
Strokes(raw, has_pos) ==
    IF raw = <<>> THEN <<>>
    ELSE Stroke(Head(raw), has_pos) \o Strokes(Tail(raw), TRUE)

\* one pass of one bold offset left with the laser on
OnePass_on(raw, pass, b, marked) ==
    (IF marked THEN <<Line("", <<"Pass", pass, "Offset", b>>)>> ELSE <<>>)
    \o Strokes(raw, FALSE)

\* one pass of one bold offset: its marker comment, its strokes, M5
OnePass(raw, pass, b, marked) ==
    (IF marked THEN <<Line("", <<"Pass", pass, "Offset", b>>)>> ELSE <<>>)
    \o Strokes(raw, FALSE) \o <<Line("M5", <<>>)>>

RECURSIVE Passes(_, _, _, _, _)
Passes(raw, passes, bold_repeats, pass, b) ==
    IF pass > passes THEN <<>>
    ELSE OnePass(raw, pass, b, passes > 1 \/ bold_repeats > 1)
         \o (IF b < bold_repeats THEN Passes(raw, passes, bold_repeats, pass, b + 1)
                                  ELSE Passes(raw, passes, bold_repeats, pass + 1, 1))

Preamble(name, x, y, w, h) ==
    <<Line("", <<"TwitchLaser Engrave", name>>), Line("", <<"Engine">>),
      Line("", <<"Bounding Box", x, y, w, h>>), Line("", <<"Passes">>),
      Line("G21", <<"Millimeters">>), Line("G90", <<"Absolute positioning">>),
      Line("M5", <<"Ensure laser is off">>), Line("G0 Z", <<"Move to physical focus height">>)>>

Postamble ==
    <<Line("", <<"Job Complete">>), Line("G90", <<>>), Line("G0 Z0", <<>>),
      Line("$H", <<>>), Line("$MD", <<>>)>>

generate_program(raw, passes, bold_repeats, name, x, y, w, h) ==
    IF raw = <<>> THEN <<Line("", <<"Error: No paths generated">>)>>
    ELSE Preamble(name, x, y, w, h) \o Passes(raw, passes, bold_repeats, 1, 1) \o Postamble

\* commands = [code of l for l in gcode_lines if code of l is not empty]
CommandsOf(lines) ==
    LET keep(l) == CodeOf(l) # ""
        kept == SelectSeq(lines, keep)
    IN  [n \in 1..Len(kept) |-> CodeOf(kept[n])]

\* ------------------------------------------------------------ wire protocol
RespLines == {"ok", "error:20", "ALARM:1", "<Run|MPos:0,0,0>", "[MSG:INFO]"}
Banner == "Grbl 3.7 [FluidNC]"

Lower(line) ==
    CASE line = "ALARM:1" -> "alarm:1"
      [] line = "<Run|MPos:0,0,0>" -> "<run|mpos:0,0,0>"
      [] line = "[MSG:INFO]" -> "[msg:info]"
      [] line = Banner -> "grbl 3.7 [fluidnc]"
      [] OTHER -> line

StartsWith(lc, prefix) ==
    CASE prefix = "<" -> lc \in {"<run|mpos:0,0,0>"}
      [] prefix = "[msg:" -> lc \in {"[msg:info]"}
      [] prefix = "[echo:" -> FALSE
      [] prefix = "[gc:" -> FALSE
      [] prefix = "error" -> lc \in {"error:20"}
      [] prefix = "alarm" -> lc \in {"alarm:1"}
      [] OTHER -> FALSE

IsSkipped(lc) ==
    \/ StartsWith(lc, "[echo:")
    \/ StartsWith(lc, "<")
    \/ StartsWith(lc, "[gc:")
    \/ StartsWith(lc, "[msg:")

IsOk(lc) == lc = "ok"

IsErrorOrAlarm(lc) == StartsWith(lc, "error") \/ StartsWith(lc, "alarm")

\* the lines the controller sends as the one response to a command
TerminalLines == {"ok", "error:20", "ALARM:1"}

\* no generate() call on its own
NoArgs == [raw_commands |-> <<>>, passes |-> 0, bold_repeats |-> 0]

\* messages: <text> <line number> <detail>
Msg(text, line, detail) == [text |-> text, line |-> line, detail |-> detail]

NoMsg == Msg("", 0, "")

\* `word in text.lower()` for the texts that occur in messages
ContainsWord(text, word) ==
    CASE word = "stopped" -> text \in {"Stopped", "stopped"}
      [] word = "alarm" -> text \in {"ALARM:1", "alarm:1"}
      [] OTHER -> FALSE

Mentions(m, word) == ContainsWord(m.text, word) \/ ContainsWord(m.detail, word)

\* ------------------------------------------------------------------- state
VARIABLES
    jobs,            \* JobManager.jobs, newest first
    jobs_file,       \* data/jobs/jobs.json
    gcode_dir,       \* data/jobs/gcode/<file>: file name -> program text
    nextId,          \* the uuid source: ids handed out so far
    queue_lock,      \* main.queue_lock: its holder
    processing,      \* main.processing
    opc,             \* position of process_queue
    job,             \* process_queue's local job (its id; 0 = None)
    place,           \* process_queue's locals x_local, y_local, actual_w, actual_h, final_height
    gcode,           \* process_queue's local gcode
    is_redo,         \* process_queue took the redo branch
    success,         \* process_queue's local success
    message,         \* process_queue's local message
    obs_calls,       \* overlay hooks called in this iteration (obs.on_engrave_*)
    placements,      \* LayoutManager.placements
    layout_dir,      \* data/: placements.json and its archives, file -> document
    connected,       \* LaserController.connected
    connection,      \* LaserController.connection: "none", "open", "closed", "broken"
    lock,            \* LaserController.lock: its holder
    engraving,       \* LaserController._engraving
    rx,              \* lines received and not yet read (socket buffer and _line_buf)
    ctl_pending,     \* controller: commands received and not yet answered
    ctl_async,       \* controller: unsolicited lines sent since the last command
    drops,           \* transport failures so far
    sg_pc,           \* position of send_gcode
    sg_i,            \* send_gcode's loop index i
    commands,        \* send_gcode's local commands
    sg_ret,          \* send_gcode's return value <<success, message>>
    wire,            \* transport trace of the current or latest stream
    stop_pc,         \* position of stop()
    estop,           \* bytes the latest stop() call wrote, and whether into a stream
    cmd_pc,          \* position of a handler's send_command
    cmds,            \* send_command calls made by handlers
    mon_pc,          \* position of _monitor_loop
    pings,           \* wake-ups of the monitor
    redo_old,        \* redo_job's argument job_id (0 = no call in progress)
    redo_new,        \* redo_job's new_job (its id)
    alloc_pc,        \* position of a find_empty_space call on its own
    request,         \* its arguments: required_width, required_height, text_height
    position,        \* its return value: <<x, y, text_height>>, or <<>> for None
    frame,           \* the arguments of the innermost find_empty_space call
    resets,          \* archive_and_reset calls made by handlers
    backup,          \* the return value of the latest one: the archive, 0 for None
    rec_pc,          \* position of the /api/laser_reconnect handler
    mon_slept,       \* seconds the monitor slept since its last ping or reconnect attempt
    mon_fails,       \* reconnect attempts of the monitor that failed in a row
    log_locked,      \* the latest access of the job log by main.py held queue_lock
    progress,        \* the calls of send_gcode to its progress_callback: <<i + 1, total>>
    gen_args,        \* the glyph commands and settings of a generate() call on its own
    connection_type  \* 'network' or 'serial', chosen at construction

vars == <<jobs, jobs_file, gcode_dir, nextId, log_locked, progress, gen_args, connection_type, queue_lock, processing, opc, job,
          place, gcode, is_redo, success, message, obs_calls, placements, layout_dir,
          connected, connection, lock, engraving, rx, ctl_pending, ctl_async,
          drops, sg_pc, sg_i, commands, sg_ret, wire, stop_pc, estop, cmd_pc, cmds, mon_pc,
          pings, redo_old, redo_new, alloc_pc, request, position, frame,
          resets, backup, rec_pc, mon_slept, mon_fails>>

storeVars == <<jobs, jobs_file, gcode_dir, nextId, log_locked>>
layoutVars == <<placements, layout_dir>>
orchLocals == <<job, place, gcode, is_redo, success, message, obs_calls>>
laserVars == <<connected, connection, lock, engraving, rx, ctl_pending, ctl_async, drops>>
sgVars == <<sg_pc, sg_i, commands, sg_ret, progress>>
stopVars == <<stop_pc, estop>>
redoVars == <<redo_old, redo_new>>
fixedVars == <<gen_args, connection_type>>
allocVars == <<alloc_pc, request, position, frame>>
resetVars == <<resets, backup>>
backoffVars == <<mon_slept, mon_fails>>
envVars == <<cmd_pc, cmds, mon_pc, pings, backoffVars, redoVars, fixedVars, allocVars, resetVars, rec_pc>>
ioVars == <<cmd_pc, cmds, mon_pc, pings, backoffVars, fixedVars, allocVars, resetVars, rec_pc>>

NoRequest == [w |-> 0, h |-> 0, th |-> 0]

\* no find_empty_space call on its own is in progress
NoCall ==
    /\ alloc_pc = "idle"
    /\ request = NoRequest
    /\ position = <<>>
    /\ frame = NoRequest

NoPlace == [x_local |-> 0, y_local |-> 0, actual_w |-> 0, actual_h |-> 0,
            final_height |-> 0]

\* everything but the job log after construction: the program files fs on
\* disk, the layout loaded with the placements ps, the controller connected
\* or not
Constructed(fs, ps) ==
    /\ gcode_dir = fs
    /\ log_locked = TRUE
    /\ progress = <<>>
    /\ queue_lock = "free"
    /\ processing = FALSE
    /\ job = 0
    /\ place = NoPlace
    /\ gcode = <<>>
    /\ is_redo = FALSE
    /\ obs_calls = <<>>
    /\ success = FALSE
    /\ message = NoMsg
    /\ placements = ps
    /\ layout_dir = StoredLayout(ps)
    /\ connected \in BOOLEAN
    /\ connection = IF connected THEN "open" ELSE "none"
    /\ lock = "free"
    /\ engraving = FALSE
    /\ rx = <<>>
    /\ ctl_pending = 0
    /\ ctl_async = 0
    /\ drops = 0
    /\ sg_pc = "idle"
    /\ sg_i = 0
    /\ commands = <<>>
    /\ sg_ret = <<FALSE, NoMsg>>
    /\ wire = <<>>
    /\ stop_pc = "idle"
    /\ estop = <<>>
    /\ cmd_pc = "idle"
    /\ cmds = 0
    /\ mon_pc = "sleep"
    /\ pings = 0
    /\ redo_old = 0
    /\ redo_new = 0
    /\ resets = 0
    /\ backup = 0
    /\ rec_pc = "idle"
    /\ mon_slept = 0
    /\ mon_fails = 0

\* the state after construction: the job store loaded with the log js and
\* the program files fs, the layout loaded with the placements ps
InitOn(transport, js, fs, ps) ==
    /\ connection_type = transport
    /\ jobs = js
    /\ jobs_file = js
    /\ nextId = Len(js)
    /\ opc = "idle"
    /\ NoCall
    /\ gen_args = NoArgs
    /\ Constructed(fs, ps)

InitWith(js, fs, ps) == InitOn("network", js, fs, ps)

\* what an earlier run can leave on disk: a finished job with its program
\* and placement, and the redo of that job (redo_job copies the settings and
\* the program)
DoneSettings == [x_local |-> 0, y_local |-> 0, width |-> INITIAL_HEIGHT,
                 height |-> INITIAL_HEIGHT, text_height |-> INITIAL_HEIGHT]

DoneJob(id, name) ==
    [NewJob(id, name, "twitch") EXCEPT !.status = "finished", !.completed_time = NOW,
                                       !.settings = DoneSettings, !.gcode_file = id]

RedoJob(id, name) ==
    [NewJob(id, name, "twitch (Redo)") EXCEPT !.settings = DoneSettings, !.gcode_file = id]

DoneProgram(name) == generate(name, 0, 0, INITIAL_HEIGHT, INITIAL_HEIGHT)

DonePlacement(name) == Placement(name, 0, 0, INITIAL_HEIGHT, INITIAL_HEIGHT, INITIAL_HEIGHT)

\* the jobs a jobs.json can hold when the process starts: pending, active or
\* failed, with or without a saved program, and finished (with a program)
MaxStored == 2
StoredKinds ==
    {<<st, art>> : st \in {"pending", "active", "failed"}, art \in BOOLEAN}
        \cup {<<"finished", TRUE>>}

StoredSettings(id) == [DoneSettings EXCEPT !.x_local = ((id - 1) % 3) * GRID_SIZE]

StoredProgram(id, name) ==
    generate(name, ((id - 1) % 3) * GRID_SIZE, 0, INITIAL_HEIGHT, INITIAL_HEIGHT)

StoredJob(id, name, kind) ==
    [NewJob(id, name, "twitch") EXCEPT
        !.status = kind[1],
        !.completed_time = IF kind[1] \in Terminal THEN NOW ELSE NULL,
        !.error = IF kind[1] = "failed" THEN Msg("Not connected to FluidNC", 0, "") ELSE NULL,
        !.settings = IF kind[2] THEN StoredSettings(id) ELSE EmptySettings,
        !.gcode_file = IF kind[2] THEN id ELSE 0]

\* logs are newest first: the job at index n of a log of k jobs has id k + 1 - n
StoredLogs ==
    {[n \in 1..k |-> StoredJob(k + 1 - n, name, kinds[n])] :
        <<k, name, kinds>> \in
            {<<k, name, kinds>> \in (0..MaxStored) \X Names \X
                 UNION {[1..m -> StoredKinds] : m \in 0..MaxStored} : Len(kinds) = k}}

StoredFiles(log) ==
    [f \in {log[n].gcode_file : n \in 1..Len(log)} \ {0} |->
        StoredProgram(f, log[Len(log) + 1 - f].name)]

\* the process starts on a stored log; the job store is not constructed yet
InitStore ==
    \E log \in StoredLogs :
        /\ jobs = <<>>
        /\ jobs_file = log
        /\ nextId = Len(log)
        /\ opc = "boot"
        /\ connection_type = "network"
        /\ NoCall
        /\ gen_args = NoArgs
        /\ Constructed(StoredFiles(log), <<>>)

\* a placement added by hand over the whole active area
FullBoard == Placement("manual", 0, 0, ACTIVE_WIDTH, ACTIVE_HEIGHT, (ACTIVE_HEIGHT * 8) \div 10)

\* the boards and the requests of a find_empty_space call on its own: up to
\* MaxBoard placements added by hand, names up to MaxAspect times as wide as
\* they are high and one too wide for the area at any height, at a text
\* height from the floor to above the active height
MaxBoard == 2
MaxAspect == 3
BoardRects ==
    {Placement("manual", x, 0, INITIAL_HEIGHT, h, (h * 8) \div 10) :
        x \in {0, 2 * GRID_SIZE}, h \in {MIN_HEIGHT, INITIAL_HEIGHT}} \cup {FullBoard}

Boards == UNION {[1..k -> BoardRects] : k \in 0..MaxBoard}

Requests ==
    {[w |-> a * th, h |-> th, th |-> th] :
        a \in (1..MaxAspect) \cup {2 * MaxAspect},
        th \in {MIN_HEIGHT, INITIAL_HEIGHT, ACTIVE_HEIGHT + MM}}

\* find_empty_space is about to be called with a request on a board
InitAlloc ==
    \E board \in Boards, req \in Requests :
        /\ jobs = <<>>
        /\ jobs_file = <<>>
        /\ nextId = 0
        /\ opc = "idle"
        /\ alloc_pc = "call"
        /\ request = req
        /\ position = <<>>
        /\ frame = req
        /\ gen_args = NoArgs
        /\ connection_type = "network"
        /\ Constructed(<<>>, board)

\* the layout alone: the process starts on no file or on a saved board
MaxResets == 2
InitLayout == \E board \in Boards : InitWith(<<>>, <<>>, board)

\* start-up with one pending job in jobs.json: a new name on an empty or on
\* a full board, or the redo of a finished job
Init ==
    \E name \in Names :
       \/ InitWith(<<NewJob(1, name, "twitch")>>, <<>>, <<>>)
       \/ InitWith(<<NewJob(1, name, "twitch")>>, <<>>, <<FullBoard>>)
       \/ InitWith(<<RedoJob(2, name), DoneJob(1, name)>>,
                   <<DoneProgram(name), DoneProgram(name)>>, <<DonePlacement(name)>>)

\* the same, or the new job has a text without contours
InitGlyph ==
    \/ Init
    \/ \E name \in Glyphless :
          \/ InitWith(<<NewJob(1, name, "twitch")>>, <<>>, <<>>)
          \/ InitWith(<<NewJob(1, name, "twitch")>>, <<>>, <<FullBoard>>)

\* start-up with an empty job log and an empty board, or with the redo of a
\* finished job waiting
InitQueue ==
    \/ InitWith(<<>>, <<>>, <<>>)
    \/ \E name \in Names :
          InitWith(<<RedoJob(2, name), DoneJob(1, name)>>,
                   <<DoneProgram(name), DoneProgram(name)>>, <<DonePlacement(name)>>)

\* ------------------------------------------------------- enqueue (main.py)
\* enqueue_name: with queue_lock: job_mgr.add_job(name, source)
enqueue_name(name) ==
    /\ queue_lock = "free"
    /\ jobs' = add_job(jobs, nextId + 1, name, "twitch")
    /\ jobs_file' = jobs'
    /\ log_locked' = TRUE
    /\ nextId' = nextId + 1
    /\ UNCHANGED <<envVars, gcode_dir, queue_lock, processing, opc, orchLocals, layoutVars,
                   laserVars, sgVars, wire, stopVars>>

\* get_gcode_path(job['id']): the file of the job if it exists (0 = None; a
\* job's file is named by its id)
get_gcode_path(js, files, id) ==
    IF HasJob(js, id) /\ get_job(js, id).gcode_file # 0
          /\ get_job(js, id).gcode_file \in DOMAIN files
    THEN get_job(js, id).gcode_file
    ELSE 0

\* save_gcode: write <id>.gcode, then update_job(gcode_file=filename)
save_gcode(files, id, text) == [f \in DOMAIN files \cup {id} |-> IF f = id THEN text ELSE files[f]]

\* ------------------------------------------- redo_job (job_manager.py)
\* old_job = get_job(job_id); new_job = add_job(name, source + ' (Redo)')
RedoAdd(id) ==
    /\ redo_old = 0
    /\ HasJob(jobs, id)
    /\ jobs' = add_job(jobs, nextId + 1, get_job(jobs, id).name,
                       get_job(jobs, id).source \o " (Redo)")
    /\ jobs_file' = jobs'
    /\ log_locked' = log_locked
    /\ nextId' = nextId + 1
    /\ redo_old' = id
    /\ redo_new' = nextId + 1
    /\ UNCHANGED <<ioVars, gcode_dir, queue_lock, processing, opc, orchLocals,
                   layoutVars, laserVars, sgVars, wire, stopVars>>

\* redo_job that copies the settings and never the program
RedoCopy_settings ==
    /\ redo_old # 0
    /\ jobs' = update_job(jobs, redo_new, [settings |-> get_job(jobs, redo_old).settings])
    /\ jobs_file' = jobs'
    /\ log_locked' = log_locked
    /\ redo_old' = 0
    /\ redo_new' = 0
    /\ UNCHANGED <<ioVars, gcode_dir, nextId, queue_lock, processing, opc, orchLocals,
                   layoutVars, laserVars, sgVars, wire, stopVars>>

\* new_job['settings'] = dict(old settings); the program of the old job, if
\* its file exists, is saved for the new one; self.save()
RedoCopy ==
    /\ redo_old # 0
    /\ LET path == get_gcode_path(jobs, gcode_dir, redo_old)
           js == update_job(jobs, redo_new, [settings |-> get_job(jobs, redo_old).settings])
       IN  IF get_job(jobs, redo_old).gcode_file # 0 /\ path # 0
           THEN /\ gcode_dir' = save_gcode(gcode_dir, redo_new, gcode_dir[path])
                /\ jobs' = update_job(js, redo_new, [gcode_file |-> redo_new])
           ELSE /\ gcode_dir' = gcode_dir
                /\ jobs' = js
    /\ jobs_file' = jobs'
    /\ log_locked' = log_locked
    /\ redo_old' = 0
    /\ redo_new' = 0
    /\ UNCHANGED <<ioVars, nextId, queue_lock, processing, opc, orchLocals,
                   layoutVars, laserVars, sgVars, wire, stopVars>>

\* ------------------------------- find_empty_space (layout_manager.py)
\* a call that returns a position
FindFound ==
    /\ alloc_pc = "call"
    /\ \E pos \in find_empty_space(placements, request.w, request.h, request.th) :
          position' = pos
    /\ alloc_pc' = "returned"
    /\ UNCHANGED <<cmd_pc, cmds, mon_pc, pings, backoffVars, redoVars, fixedVars, resetVars, rec_pc, storeVars, queue_lock, processing, opc,
                   orchLocals, layoutVars, laserVars, sgVars, wire, stopVars, request, frame>>

\* a call that returns None
FindNone ==
    /\ alloc_pc = "call"
    /\ find_empty_space(placements, request.w, request.h, request.th) = {}
    /\ position' = <<>>
    /\ alloc_pc' = "returned"
    /\ UNCHANGED <<cmd_pc, cmds, mon_pc, pings, backoffVars, redoVars, fixedVars, resetVars, rec_pc, storeVars, queue_lock, processing, opc,
                   orchLocals, layoutVars, laserVars, sgVars, wire, stopVars, request, frame>>

\* the same call, one loop iteration or one recursive call at a time
Scaled(f) == [w |-> (f.w * Shrunk(f.th)) \div f.th, h |-> (f.h * Shrunk(f.th)) \div f.th,
              th |-> Shrunk(f.th)]

FreeAt(ps, f) ==
    IF ACTIVE_WIDTH - f.w < 0 \/ ACTIVE_HEIGHT - f.h < 0 THEN {}
    ELSE {c \in {<<x, y, f.th>> : x \in GridRange(ACTIVE_WIDTH - f.w),
                                   y \in GridRange(ACTIVE_HEIGHT - f.h)} :
             _is_space_empty(ps, c[1], c[2], f.w, f.h)}

FesFrame == <<cmd_pc, cmds, mon_pc, pings, backoffVars, redoVars, fixedVars, resetVars, rec_pc, storeVars, queue_lock, processing, opc,
              orchLocals, layoutVars, laserVars, sgVars, wire, stopVars, request>>

\* step 1, one iteration of the while loop
FesFit ==
    /\ alloc_pc = "call"
    /\ frame.w > ACTIVE_WIDTH /\ frame.th > MIN_HEIGHT
    /\ frame' = Scaled(frame)
    /\ UNCHANGED <<FesFrame, alloc_pc, position>>

\* if required_width > self.width_mm: return None
FesTooWide ==
    /\ alloc_pc = "call"
    /\ ~(frame.w > ACTIVE_WIDTH /\ frame.th > MIN_HEIGHT)
    /\ frame.w > ACTIVE_WIDTH
    /\ position' = <<>>
    /\ alloc_pc' = "returned"
    /\ UNCHANGED <<FesFrame, frame>>

\* step 2: the shuffled scan finds a free candidate
FesScanHit ==
    /\ alloc_pc = "call"
    /\ frame.w <= ACTIVE_WIDTH
    /\ \E pos \in FreeAt(placements, frame) : position' = pos
    /\ alloc_pc' = "returned"
    /\ UNCHANGED <<FesFrame, frame>>

\* step 3: no candidate and text_height > min_height: the recursive call
FesRecurse ==
    /\ alloc_pc = "call"
    /\ frame.w <= ACTIVE_WIDTH
    /\ FreeAt(placements, frame) = {}
    /\ frame.th > MIN_HEIGHT
    /\ frame' = Scaled(frame)
    /\ UNCHANGED <<FesFrame, alloc_pc, position>>

\* no candidate at the minimum height: return None
FesNone ==
    /\ alloc_pc = "call"
    /\ frame.w <= ACTIVE_WIDTH
    /\ FreeAt(placements, frame) = {}
    /\ ~(frame.th > MIN_HEIGHT)
    /\ position' = <<>>
    /\ alloc_pc' = "returned"
    /\ UNCHANGED <<FesFrame, frame>>

\* ------------------------------------ the layout handlers (web_server.py)
HandlerFrame == <<cmd_pc, cmds, mon_pc, pings, backoffVars, redoVars, fixedVars, allocVars, rec_pc, storeVars, queue_lock,
                  processing, opc, orchLocals, laserVars, sgVars, wire, stopVars>>

\* the rectangles drawn in the browser: a small one at the origin, the board
ManualRects == {r \in BoardRects : r.x = 0 /\ r.height = MIN_HEIGHT} \cup {FullBoard}

\* /api/add_placement: layout.add_placement(name, x, y, width, height, height * 0.8)
WebAddPlacement ==
    /\ Len(placements) < MaxBoard
    /\ \E r \in ManualRects :
          placements' = add_placement(placements, r.name, r.x, r.y, r.width, r.height,
                                      (r.height * 8) \div 10)
    /\ layout_dir' = layout_save(layout_dir, placements')
    /\ UNCHANGED <<HandlerFrame, resetVars>>

\* /api/clear_placements: layout.clear_all()
WebClear ==
    /\ placements' = <<>>
    /\ layout_dir' = layout_save(layout_dir, placements')
    /\ UNCHANGED <<HandlerFrame, resetVars>>

\* the archive names the clock allows: the name of the latest archive (the
\* same second) or the next one
LastArchive(dir) ==
    IF DOMAIN dir \ {DATA_FILE} = {} THEN 0
    ELSE CHOOSE n \in DOMAIN dir \ {DATA_FILE} : \A m \in DOMAIN dir \ {DATA_FILE} : m <= n

ArchiveNames(dir) == {LastArchive(dir), LastArchive(dir) + 1} \ {DATA_FILE}

\* archive_and_reset() that clears and saves before it copies
ResetArchive_late ==
    /\ resets < MaxResets
    /\ DATA_FILE \in DOMAIN layout_dir
    /\ \E n \in ArchiveNames(layout_dir) :
          /\ layout_dir' = [f \in DOMAIN layout_dir \cup {n} |->
                               IF f \in {n, DATA_FILE} THEN Document(<<>>) ELSE layout_dir[f]]
          /\ backup' = n
    /\ placements' = <<>>
    /\ resets' = resets + 1
    /\ UNCHANGED HandlerFrame

\* /api/reset_board: archive_and_reset(), the file exists: it is copied to a
\* timestamped backup, then placements = [] and save()
ResetArchive ==
    /\ resets < MaxResets
    /\ DATA_FILE \in DOMAIN layout_dir
    /\ \E n \in ArchiveNames(layout_dir) :
          /\ layout_dir' = layout_save([f \in DOMAIN layout_dir \cup {n} |->
                                           IF f = n THEN layout_dir[DATA_FILE]
                                           ELSE layout_dir[f]], <<>>)
          /\ backup' = n
    /\ placements' = <<>>
    /\ resets' = resets + 1
    /\ UNCHANGED HandlerFrame

\* archive_and_reset(), no file: placements = []; return None
ResetNoFile ==
    /\ resets < MaxResets
    /\ DATA_FILE \notin DOMAIN layout_dir
    /\ placements' = <<>>
    /\ backup' = 0
    /\ resets' = resets + 1
    /\ UNCHANGED <<HandlerFrame, layout_dir>>

\* the process starts again: LayoutManager() loads the file
LayoutRestart ==
    /\ placements' = layout_load(layout_dir)
    /\ UNCHANGED <<HandlerFrame, resetVars, layout_dir>>

\* -------------------------------------------- startup (job_manager.py)
\* load() that resets only the newest job
load_newest(file) ==
    [n \in 1..Len(file) |->
        IF n = 1 /\ file[n].status = "active"
        THEN [file[n] EXCEPT !.status = "stopped",
                             !.error = Msg("Interrupted by server restart", 0, "")]
        ELSE file[n]]

\* load(): the log as read from jobs.json, every active job reset to stopped
load(file) ==
    [n \in 1..Len(file) |->
        IF file[n].status = "active"
        THEN [file[n] EXCEPT !.status = "stopped",
                             !.error = Msg("Interrupted by server restart", 0, "")]
        ELSE file[n]]

\* JobManager(): self.jobs = []; self.load(); self.save()
Startup ==
    /\ opc = "boot"
    /\ jobs' = load(jobs_file)
    /\ jobs_file' = jobs'
    /\ log_locked' = log_locked
    /\ opc' = "idle"
    /\ UNCHANGED <<envVars, gcode_dir, nextId, queue_lock, processing, orchLocals, layoutVars,
                   laserVars, sgVars, wire, stopVars>>

\* redo_job(job_id) for an id the log does not hold: return None
RedoUnknown(id) ==
    /\ redo_old = 0
    /\ ~HasJob(jobs, id)
    /\ UNCHANGED vars

\* ------------------------------------------------- process_queue (main.py)
\* the claim without `processing = True`
OrchSelect_noflag ==
    /\ opc = "idle"
    /\ queue_lock = "free"
    /\ ~processing
    /\ get_next_pending(jobs) # 0
    /\ job' = get_next_pending(jobs)
    /\ processing' = processing
    /\ queue_lock' = "orch"
    /\ opc' = "claim"
    /\ UNCHANGED <<obs_calls, envVars, storeVars, place, gcode, is_redo, success, message, layoutVars,
                   laserVars, sgVars, wire, stopVars>>

\* with queue_lock: if not processing: job = get_next_pending(); processing = True
OrchSelect ==
    /\ opc = "idle"
    /\ queue_lock = "free"
    /\ ~processing
    /\ get_next_pending(jobs) # 0
    /\ job' = get_next_pending(jobs)
    /\ processing' = TRUE
    /\ queue_lock' = "orch"
    /\ opc' = "claim"
    /\ UNCHANGED <<obs_calls, envVars, storeVars, place, gcode, is_redo, success, message, layoutVars,
                   laserVars, sgVars, wire, stopVars>>

\* still under queue_lock: update_job(job['id'], status='active')
OrchClaim ==
    /\ opc = "claim"
    /\ jobs' = update_job(jobs, job, [status |-> "active"])
    /\ jobs_file' = jobs'
    /\ log_locked' = TRUE
    /\ queue_lock' = "free"
    /\ opc' = "claimed"
    /\ UNCHANGED <<envVars, gcode_dir, nextId, processing, orchLocals, layoutVars,
                   laserVars, sgVars, wire, stopVars>>

OrchRedo ==
    /\ opc = "claimed"
    /\ get_gcode_path(jobs, gcode_dir, job) # 0
    /\ gcode' = gcode_dir[get_gcode_path(jobs, gcode_dir, job)]
    /\ LET st == get_job(jobs, job).settings
       IN  place' = [x_local |-> st.x_local, y_local |-> st.y_local,
                     actual_w |-> st.width, actual_h |-> st.height,
                     final_height |-> st.text_height]
    /\ is_redo' = TRUE
    /\ opc' = "run"
    /\ UNCHANGED <<obs_calls, envVars, storeVars, queue_lock, processing, job, success, message,
                   layoutVars, laserVars, sgVars, wire, stopVars>>

\* new job: estimate, then layout.find_empty_space; a position was found
OrchPlace ==
    /\ opc = "claimed"
    /\ get_gcode_path(jobs, gcode_dir, job) = 0
    /\ LET width == RawWidth(get_job(jobs, job).name, INITIAL_HEIGHT)
           height == INITIAL_HEIGHT
       IN  \E pos \in find_empty_space(placements, width, height, INITIAL_HEIGHT) :
              place' = [x_local |-> pos[1], y_local |-> pos[2], actual_w |-> width,
                        actual_h |-> pos[3], final_height |-> pos[3]]
    /\ is_redo' = FALSE
    /\ opc' = "compile"
    /\ UNCHANGED <<obs_calls, envVars, storeVars, queue_lock, processing, job, gcode, success, message,
                   layoutVars, laserVars, sgVars, wire, stopVars>>

\* the refusal handled after the placement had been recorded for the name
OrchRefused_recorded ==
    /\ opc = "claimed"
    /\ get_gcode_path(jobs, gcode_dir, job) = 0
    /\ find_empty_space(placements, RawWidth(get_job(jobs, job).name, INITIAL_HEIGHT),
                        INITIAL_HEIGHT, INITIAL_HEIGHT) = {}
    /\ queue_lock = "free"
    /\ jobs' = update_job(jobs, job, [status |-> "pending"])
    /\ jobs_file' = jobs'
    /\ log_locked' = TRUE
    /\ placements' = add_placement(placements, get_job(jobs, job).name, 0, 0,
                                   INITIAL_HEIGHT, INITIAL_HEIGHT, INITIAL_HEIGHT)
    /\ layout_dir' = layout_save(layout_dir, placements')
    /\ is_redo' = FALSE
    /\ opc' = "requeued"
    /\ UNCHANGED <<obs_calls, envVars, gcode_dir, nextId, queue_lock, processing, job, place,
                   gcode, success, message, laserVars, sgVars, wire, stopVars>>

\* find_empty_space returned None: with queue_lock: update_job(status='pending')
OrchRefused ==
    /\ opc = "claimed"
    /\ get_gcode_path(jobs, gcode_dir, job) = 0
    /\ find_empty_space(placements, RawWidth(get_job(jobs, job).name, INITIAL_HEIGHT),
                        INITIAL_HEIGHT, INITIAL_HEIGHT) = {}
    /\ queue_lock = "free"
    /\ jobs' = update_job(jobs, job, [status |-> "pending"])
    /\ jobs_file' = jobs'
    /\ log_locked' = TRUE
    /\ is_redo' = FALSE
    /\ opc' = "requeued"
    /\ UNCHANGED <<obs_calls, envVars, gcode_dir, nextId, queue_lock, processing, job, place, gcode,
                   success, message, layoutVars, laserVars, sgVars, wire, stopVars>>

\* the locals of one iteration are dead at the top of the next one
NextIteration ==
    /\ opc' = "idle"
    /\ job' = 0
    /\ place' = NoPlace
    /\ gcode' = <<>>
    /\ is_redo' = FALSE
    /\ success' = FALSE
    /\ message' = NoMsg
    /\ obs_calls' = <<>>
    /\ wire' = <<>>
    /\ estop' = IF stop_pc = "idle" THEN <<>> ELSE estop

\* processing = False; time.sleep(5); continue
OrchRequeued ==
    /\ opc = "requeued"
    /\ processing' = FALSE
    /\ NextIteration
    /\ UNCHANGED <<envVars, storeVars, queue_lock, layoutVars, laserVars, sgVars, stop_pc>>

\* the glyph loader raises while estimating: except Exception
OrchRaise ==
    /\ opc = "claimed"
    /\ get_gcode_path(jobs, gcode_dir, job) = 0
    /\ message' = Msg("FT_Exception", 0, "")
    /\ opc' = "except"
    /\ UNCHANGED <<obs_calls, envVars, storeVars, queue_lock, processing, job, place, gcode, is_redo,
                   success, layoutVars, laserVars, sgVars, wire, stopVars>>

\* gcode = generate(...); update_job(settings=...)
OrchCompile ==
    /\ opc = "compile"
    /\ gcode' = generate(get_job(jobs, job).name, place.x_local, place.y_local,
                         place.actual_w, place.final_height)
    /\ jobs' = update_job(jobs, job,
                 [settings |-> [x_local |-> place.x_local, y_local |-> place.y_local,
                                width |-> place.actual_w, height |-> place.actual_h,
                                text_height |-> place.final_height]])
    /\ jobs_file' = jobs'
    /\ log_locked' = FALSE
    /\ opc' = "save"
    /\ UNCHANGED <<obs_calls, envVars, gcode_dir, nextId, queue_lock, processing, job, place, is_redo,
                   success, message, layoutVars, laserVars, sgVars, wire, stopVars>>

\* the program streamed without being saved
OrchSave_skip ==
    /\ opc = "save"
    /\ opc' = "run"
    /\ UNCHANGED <<envVars, storeVars, queue_lock, processing, orchLocals, layoutVars,
                   laserVars, sgVars, wire, stopVars>>

\* job_mgr.save_gcode(job['id'], gcode)
OrchSave ==
    /\ opc = "save"
    /\ gcode_dir' = save_gcode(gcode_dir, job, gcode)
    /\ jobs' = update_job(jobs, job, [gcode_file |-> job])
    /\ jobs_file' = jobs'
    /\ log_locked' = FALSE
    /\ opc' = "run"
    /\ UNCHANGED <<envVars, nextId, queue_lock, processing, orchLocals, layoutVars,
                   laserVars, sgVars, wire, stopVars>>

\* ------------------------------------------ send_gcode (laser_controller.py)
Event(who, ev, arg) == [who |-> who, ev |-> ev, arg |-> arg]

\* _run_engrave: obs.on_engrave_start, then send_gcode(gcode.split('\n'));
\* no command at all returns (True, "No commands") without taking the lock
SgCall ==
    /\ opc = "run"
    /\ sg_pc = "idle"
    /\ commands' = CommandsOf(gcode)
    /\ sg_i' = 0
    /\ progress' = <<>>
    /\ IF Len(commands') = 0
       THEN /\ sg_pc' = "return"
            /\ sg_ret' = <<TRUE, Msg("No commands", 0, "")>>
       ELSE /\ sg_pc' = "lock"
            /\ sg_ret' = <<FALSE, NoMsg>>
    /\ obs_calls' = Append(obs_calls, "on_engrave_start")
    /\ opc' = "stream"
    /\ UNCHANGED <<envVars, storeVars, queue_lock, processing, job, place, gcode, is_redo,
                   success, message, layoutVars, laserVars, wire, stopVars>>

\* with self.lock: if not self.connected: reconnect(), else _flush_input()
SgAcquire ==
    /\ sg_pc = "lock"
    /\ progress' = progress
    /\ lock = "free"
    /\ lock' = "stream"
    /\ sg_pc' = IF connected THEN "flush" ELSE "reconnect"
    /\ UNCHANGED <<envVars, storeVars, queue_lock, processing, opc, orchLocals, layoutVars,
                   connected, connection, engraving, rx, ctl_pending, ctl_async,
                   drops, sg_i, commands, sg_ret, wire, stopVars>>

\* reconnect() fails in connect(): return (False, "Not connected to FluidNC")
SgReconnectFail ==
    /\ sg_pc = "reconnect"
    /\ progress' = progress
    /\ connection' = "closed"
    /\ connected' = FALSE
    /\ rx' = <<>>
    /\ sg_ret' = <<FALSE, Msg("Not connected to FluidNC", 0, "")>>
    /\ sg_pc' = "unlock"
    /\ UNCHANGED <<envVars, storeVars, queue_lock, processing, opc, orchLocals, layoutVars,
                   lock, engraving, ctl_pending, ctl_async, drops, sg_i, commands,
                   wire, stopVars>>

\* reconnect() succeeds: connect() then calls send_command("$$"), which waits
\* for self.lock, held by this very call
SgReconnectOk ==
    /\ sg_pc = "reconnect"
    /\ progress' = progress
    /\ connection' = "open"
    /\ connected' = TRUE
    /\ rx' = <<>>
    /\ ctl_pending' = 0
    /\ ctl_async' = 0
    /\ sg_pc' = "blocked"
    /\ UNCHANGED <<envVars, storeVars, queue_lock, processing, opc, orchLocals, layoutVars,
                   lock, engraving, drops, sg_i, commands, sg_ret, wire, stopVars>>

\* _flush_input(); self._engraving = True
SgFlush ==
    /\ sg_pc = "flush"
    /\ progress' = progress
    /\ rx' = <<>>
    /\ engraving' = TRUE
    /\ wire' = <<>>
    /\ sg_pc' = "write"
    /\ UNCHANGED <<envVars, storeVars, queue_lock, processing, opc, orchLocals, layoutVars,
                   connected, connection, lock, ctl_pending, ctl_async, drops,
                   sg_i, commands, sg_ret, stopVars>>

\* the next statement of the loop after the response to command i + 1
AfterAck(i) == IF i + 1 < Len(commands) THEN "write" ELSE "done"

\* connection.sendall(cmd + '\n')
SgWrite ==
    /\ sg_pc = "write"
    /\ progress' = progress
    /\ connection = "open"
    /\ ctl_pending' = ctl_pending + 1
    /\ ctl_async' = 0
    /\ wire' = Append(wire, Event("stream", "write", commands[sg_i + 1]))
    /\ sg_pc' = "read"
    /\ UNCHANGED <<envVars, storeVars, queue_lock, processing, opc, orchLocals, layoutVars,
                   connected, connection, lock, engraving, rx, drops, sg_i,
                   commands, sg_ret, stopVars>>

\* the send error returning without the finally clause
SgWriteError_nofinally ==
    /\ sg_pc = "write"
    /\ progress' = progress
    /\ connection # "open"
    /\ sg_ret' = <<FALSE, Msg("Send error at line", sg_i + 1, "OSError")>>
    /\ sg_pc' = "unlock"
    /\ UNCHANGED <<envVars, storeVars, queue_lock, processing, opc, orchLocals, layoutVars,
                   laserVars, sg_i, commands, wire, stopVars>>

\* sendall raises: return (False, "Send error at line i+1: e")
SgWriteError ==
    /\ sg_pc = "write"
    /\ progress' = progress
    /\ connection # "open"
    /\ sg_ret' = <<FALSE, Msg("Send error at line", sg_i + 1, "OSError")>>
    /\ sg_pc' = "finally"
    /\ UNCHANGED <<envVars, storeVars, queue_lock, processing, opc, orchLocals, layoutVars,
                   laserVars, sg_i, commands, wire, stopVars>>

\* the read loop taking whatever line comes first as the response
SgRead_anyline ==
    /\ sg_pc = "read"
    /\ progress' = progress
    /\ rx # <<>>
    /\ connection = "open"
    /\ rx' = Tail(rx)
    /\ LET lc == Lower(Head(rx))
       IN  /\ wire' = Append(wire, Event("stream", "read",
                         IF IsSkipped(lc) THEN "skipped"
                         ELSE IF IsOk(lc) THEN "ok"
                         ELSE IF IsErrorOrAlarm(lc) THEN "error" ELSE "other"))
           /\ sg_pc' = AfterAck(sg_i)
           /\ sg_i' = IF sg_i + 1 < Len(commands) THEN sg_i + 1 ELSE sg_i
    /\ UNCHANGED <<envVars, storeVars, queue_lock, processing, opc, orchLocals, layoutVars,
                   connected, connection, lock, engraving, ctl_pending, ctl_async,
                   drops, commands, sg_ret, stopVars>>

\* the read loop returning failure on an error or alarm response
SgRead_abort ==
    /\ sg_pc = "read"
    /\ progress' = progress
    /\ rx # <<>>
    /\ connection = "open"
    /\ rx' = Tail(rx)
    /\ LET lc == Lower(Head(rx))
       IN  IF IsSkipped(lc)
           THEN /\ wire' = Append(wire, Event("stream", "read", "skipped"))
                /\ UNCHANGED <<sg_pc, sg_i, sg_ret>>
           ELSE IF IsOk(lc)
           THEN /\ wire' = Append(wire, Event("stream", "read", "ok"))
                /\ sg_pc' = AfterAck(sg_i)
                /\ sg_i' = IF sg_i + 1 < Len(commands) THEN sg_i + 1 ELSE sg_i
                /\ UNCHANGED sg_ret
           ELSE IF IsErrorOrAlarm(lc)
           THEN /\ wire' = Append(wire, Event("stream", "read", "error"))
                /\ sg_ret' = <<FALSE, Msg("GRBL error at line", sg_i + 1, commands[sg_i + 1])>>
                /\ sg_pc' = "finally"
                /\ UNCHANGED sg_i
           ELSE /\ wire' = Append(wire, Event("stream", "read", "other"))
                /\ UNCHANGED <<sg_pc, sg_i, sg_ret>>
    /\ UNCHANGED <<envVars, storeVars, queue_lock, processing, opc, orchLocals, layoutVars,
                   connected, connection, lock, engraving, ctl_pending, ctl_async,
                   drops, commands, stopVars>>

\* progress_callback called for the commands answered by ok only
SgRead_okonly ==
    /\ sg_pc = "read"
    /\ rx # <<>>
    /\ connection = "open"
    /\ rx' = Tail(rx)
    /\ LET lc == Lower(Head(rx))
       IN  IF IsSkipped(lc)
           THEN /\ wire' = Append(wire, Event("stream", "read", "skipped"))
                /\ UNCHANGED <<sg_pc, sg_i, progress>>
           ELSE IF IsOk(lc) \/ IsErrorOrAlarm(lc)
           THEN /\ wire' = Append(wire, Event("stream", "read",
                                     IF IsOk(lc) THEN "ok" ELSE "error"))
                /\ sg_pc' = AfterAck(sg_i)
                /\ sg_i' = IF sg_i + 1 < Len(commands) THEN sg_i + 1 ELSE sg_i
                /\ progress' = IF IsOk(lc)
                               THEN Append(progress, <<sg_i + 1, Len(commands)>>)
                               ELSE progress
           ELSE /\ wire' = Append(wire, Event("stream", "read", "other"))
                /\ UNCHANGED <<sg_pc, sg_i, progress>>
    /\ UNCHANGED <<envVars, storeVars, queue_lock, processing, opc, orchLocals, layoutVars,
                   connected, connection, lock, engraving, ctl_pending, ctl_async,
                   drops, commands, sg_ret, stopVars>>

\* response = _read_line(60.0): one line; skipped, or taken as the response,
\* and progress_callback(i + 1, total) when the read loop of the command ends
SgRead ==
    /\ sg_pc = "read"
    /\ rx # <<>>
    /\ connection = "open"
    /\ rx' = Tail(rx)
    /\ LET lc == Lower(Head(rx))
       IN  IF IsSkipped(lc)
           THEN /\ wire' = Append(wire, Event("stream", "read", "skipped"))
                /\ UNCHANGED <<sg_pc, sg_i, progress>>
           ELSE IF IsOk(lc) \/ IsErrorOrAlarm(lc)
           THEN /\ wire' = Append(wire, Event("stream", "read",
                                     IF IsOk(lc) THEN "ok" ELSE "error"))
                /\ sg_pc' = AfterAck(sg_i)
                /\ sg_i' = IF sg_i + 1 < Len(commands) THEN sg_i + 1 ELSE sg_i
                /\ progress' = Append(progress, <<sg_i + 1, Len(commands)>>)
           ELSE /\ wire' = Append(wire, Event("stream", "read", "other"))
                /\ UNCHANGED <<sg_pc, sg_i, progress>>
    /\ UNCHANGED <<envVars, storeVars, queue_lock, processing, opc, orchLocals, layoutVars,
                   connected, connection, lock, engraving, ctl_pending, ctl_async,
                   drops, commands, sg_ret, stopVars>>

\* the timeout message counting lines from 0
SgTimeout_index ==
    /\ sg_pc = "read"
    /\ progress' = progress
    /\ rx = <<>> \/ connection # "open"
    /\ wire' = Append(wire, Event("stream", "read", "timeout"))
    /\ sg_ret' = <<FALSE, Msg("Timeout waiting for response at line", sg_i,
                              commands[sg_i + 1])>>
    /\ sg_pc' = "finally"
    /\ UNCHANGED <<envVars, storeVars, queue_lock, processing, opc, orchLocals, layoutVars,
                   laserVars, sg_i, commands, stopVars>>

\* _read_line returns None (nothing within the timeout, or recv raised)
SgTimeout ==
    /\ sg_pc = "read"
    /\ progress' = progress
    /\ rx = <<>> \/ connection # "open"
    /\ wire' = Append(wire, Event("stream", "read", "timeout"))
    /\ sg_ret' = <<FALSE, Msg("Timeout waiting for response at line", sg_i + 1,
                              commands[sg_i + 1])>>
    /\ sg_pc' = "finally"
    /\ UNCHANGED <<envVars, storeVars, queue_lock, processing, opc, orchLocals, layoutVars,
                   laserVars, sg_i, commands, stopVars>>

\* after the loop: return (True, "Completed <total> commands")
SgDone ==
    /\ sg_pc = "done"
    /\ progress' = progress
    /\ sg_ret' = <<TRUE, Msg("Completed commands", Len(commands), "")>>
    /\ sg_pc' = "finally"
    /\ UNCHANGED <<envVars, storeVars, queue_lock, processing, opc, orchLocals, layoutVars,
                   laserVars, sg_i, commands, wire, stopVars>>

\* finally: self._engraving = False
SgFinally ==
    /\ sg_pc = "finally"
    /\ progress' = progress
    /\ engraving' = FALSE
    /\ sg_pc' = "unlock"
    /\ UNCHANGED <<envVars, storeVars, queue_lock, processing, opc, orchLocals, layoutVars,
                   connected, connection, lock, rx, ctl_pending, ctl_async, drops,
                   sg_i, commands, sg_ret, wire, stopVars>>

\* leaving `with self.lock`
SgUnlock ==
    /\ sg_pc = "unlock"
    /\ progress' = progress
    /\ lock' = "free"
    /\ sg_pc' = "return"
    /\ UNCHANGED <<envVars, storeVars, queue_lock, processing, opc, orchLocals, layoutVars,
                   connected, connection, engraving, rx, ctl_pending, ctl_async,
                   drops, sg_i, commands, sg_ret, wire, stopVars>>

\* back in _run_engrave: obs.on_engrave_finish; success, message = ...
SgReturn ==
    /\ sg_pc = "return"
    /\ progress' = progress
    /\ opc = "stream"
    /\ success' = sg_ret[1]
    /\ message' = sg_ret[2]
    /\ sg_pc' = "idle"
    /\ sg_i' = 0
    /\ commands' = <<>>
    /\ sg_ret' = <<FALSE, NoMsg>>
    /\ obs_calls' = Append(obs_calls, "on_engrave_finish")
    /\ opc' = "engraved"
    /\ UNCHANGED <<envVars, storeVars, queue_lock, processing, job, place, gcode, is_redo,
                   layoutVars, laserVars, wire, stopVars>>

\* ------------------------------------- process_queue after the stream
\* add_placement without the test on success
OrchRecord_always ==
    /\ opc = "engraved"
    /\ IF ~is_redo
       THEN placements' = add_placement(placements, get_job(jobs, job).name,
                                        place.x_local, place.y_local, place.actual_w,
                                        place.actual_h, place.final_height)
       ELSE placements' = placements
    /\ layout_dir' = layout_save(layout_dir, placements')
    /\ opc' = "finalize"
    /\ UNCHANGED <<envVars, storeVars, queue_lock, processing, orchLocals, laserVars,
                   sgVars, wire, stopVars>>

\* if success (new job only): layout.add_placement(...), which saves
OrchRecord ==
    /\ opc = "engraved"
    /\ IF ~is_redo /\ success
       THEN placements' = add_placement(placements, get_job(jobs, job).name,
                                        place.x_local, place.y_local, place.actual_w,
                                        place.actual_h, place.final_height)
       ELSE placements' = placements
    /\ layout_dir' = layout_save(layout_dir, placements')
    /\ opc' = "finalize"
    /\ UNCHANGED <<envVars, storeVars, queue_lock, processing, orchLocals, laserVars,
                   sgVars, wire, stopVars>>

\* the failure status chosen without looking at the message
FinalStatus_blind(ok, msg) == IF ok THEN "finished" ELSE "stopped"

\* the status the orchestrator gives a job whose stream has returned
FinalStatus(ok, msg) ==
    IF ok THEN "finished"
    ELSE IF Mentions(msg, "stopped") \/ Mentions(msg, "alarm") THEN "stopped"
    ELSE "failed"

\* with queue_lock: update_job(status=...), error=message on failure
OrchFinalize ==
    /\ opc = "finalize"
    /\ queue_lock = "free"
    /\ queue_lock' = "orch"
    /\ jobs' = IF success
               THEN update_job(jobs, job, [status |-> "finished"])
               ELSE update_job(jobs, job, [status |-> FinalStatus(success, message),
                                           error |-> message])
    /\ jobs_file' = jobs'
    /\ log_locked' = TRUE
    /\ opc' = "finalized"
    /\ UNCHANGED <<envVars, gcode_dir, nextId, processing, orchLocals, layoutVars,
                   laserVars, sgVars, wire, stopVars>>

\* still under queue_lock: processing = False
OrchRelease ==
    /\ opc = "finalized"
    /\ processing' = FALSE
    /\ queue_lock' = "free"
    /\ NextIteration
    /\ UNCHANGED <<envVars, storeVars, layoutVars, laserVars, sgVars, stop_pc>>

\* except Exception as e: update_job(status='failed', error=str(e))
OrchExcept ==
    /\ opc = "except"
    /\ jobs' = update_job(jobs, job, [status |-> "failed", error |-> message])
    /\ jobs_file' = jobs'
    /\ log_locked' = FALSE
    /\ opc' = "excepted"
    /\ UNCHANGED <<envVars, gcode_dir, nextId, queue_lock, processing, orchLocals,
                   layoutVars, laserVars, sgVars, wire, stopVars>>

\* with queue_lock: processing = False; time.sleep(5)
OrchExcepted ==
    /\ opc = "excepted"
    /\ queue_lock = "free"
    /\ processing' = FALSE
    /\ NextIteration
    /\ UNCHANGED <<envVars, storeVars, queue_lock, layoutVars, laserVars, sgVars, stop_pc>>

\* ------------------------------------------------- the motion controller
MaxAsync == 1
AsyncLines == {"<Run|MPos:0,0,0>", "[MSG:INFO]"}

\* the one response to a received command
CtlAck ==
    /\ ctl_pending > 0
    /\ connection = "open"
    /\ Len(rx) < MaxRx
    /\ \E line \in TerminalLines : rx' = Append(rx, line)
    /\ ctl_pending' = ctl_pending - 1
    /\ UNCHANGED <<envVars, storeVars, queue_lock, processing, opc, orchLocals, layoutVars,
                   connected, connection, lock, engraving, ctl_async, drops,
                   sgVars, wire, stopVars>>

\* a status report or message between a command and its response
CtlAsync ==
    /\ ctl_pending > 0
    /\ connection = "open"
    /\ Len(rx) < MaxRx
    /\ ctl_async < MaxAsync
    /\ \E line \in AsyncLines : rx' = Append(rx, line)
    /\ ctl_async' = ctl_async + 1
    /\ UNCHANGED <<envVars, storeVars, queue_lock, processing, opc, orchLocals, layoutVars,
                   connected, connection, lock, engraving, ctl_pending, drops,
                   sgVars, wire, stopVars>>

\* the transport fails (peer gone, cable pulled)
NetDrop ==
    /\ drops < MaxDrops
    /\ connection = "open"
    /\ connection' = "broken"
    /\ drops' = drops + 1
    /\ UNCHANGED <<envVars, storeVars, queue_lock, processing, opc, orchLocals, layoutVars,
                   connected, lock, engraving, rx, ctl_pending, ctl_async,
                   sgVars, wire, stopVars>>

\* ------------------------------------------------ stop (laser_controller.py)
\* a byte written by stop(), and whether send_gcode was inside its command
\* loop at that moment (where it holds self.lock)
StopEvent(byte) == [streaming |-> sg_pc \in {"write", "read"}, byte |-> byte]

\* stop() taking self.lock like send_command
StopHold_locked ==
    /\ stop_pc = "idle"
    /\ lock = "free"
    /\ IF connection = "open"
       THEN /\ estop' = <<StopEvent("!")>>
            /\ stop_pc' = "sleep"
       ELSE /\ estop' = <<>>
            /\ stop_pc' = "idle"
    /\ UNCHANGED <<envVars, storeVars, queue_lock, processing, opc, orchLocals, layoutVars,
                   laserVars, sgVars, wire>>

\* laser_stop -> stop(): connection.sendall(b'!\n'); the write may raise,
\* which ends stop() at once (except Exception: pass)
StopHold ==
    /\ stop_pc = "idle"
    /\ IF connection = "open"
       THEN /\ estop' = <<StopEvent("!")>>
            /\ stop_pc' = "sleep"
       ELSE /\ estop' = <<>>
            /\ stop_pc' = "idle"
    /\ UNCHANGED <<envVars, storeVars, queue_lock, processing, opc, orchLocals, layoutVars,
                   laserVars, sgVars, wire>>

\* time.sleep(0.1); connection.sendall(b'\x18\n'); return True, "Stopped".
\* The soft reset empties the controller's queue: what it had not answered is
\* never answered
StopReset ==
    /\ stop_pc = "sleep"
    /\ stop_pc' = "idle"
    /\ IF connection = "open"
       THEN /\ estop' = Append(estop, StopEvent("0x18"))
            /\ ctl_pending' = 0
            /\ ctl_async' = 0
       ELSE UNCHANGED <<estop, ctl_pending, ctl_async>>
    /\ UNCHANGED <<envVars, storeVars, queue_lock, processing, opc, orchLocals, layoutVars,
                   connected, connection, lock, engraving, rx, drops, sgVars,
                   wire>>

\* ---------------------------------- send_command (laser_controller.py)
\* a send_gcode call is between taking and releasing self.lock for a stream
Streaming == sg_pc \in {"write", "read", "done", "finally", "unlock"}

\* the trace of a stream records every transport access made during it
Traced(ev) == IF Streaming THEN Append(wire, ev) ELSE wire

\* laser_command / laser_home / laser_unlock -> send_command: with self.lock
CmdAcquire ==
    /\ cmd_pc = "idle"
    /\ cmds < MaxCmds
    /\ lock = "free"
    /\ lock' = "cmd"
    /\ cmds' = cmds + 1
    /\ cmd_pc' = IF connected THEN "write" ELSE "reconnect"
    /\ UNCHANGED <<backoffVars, redoVars, fixedVars, allocVars, resetVars, rec_pc, storeVars, queue_lock, processing, opc, orchLocals, layoutVars,
                   connected, connection, engraving, rx, ctl_pending, ctl_async,
                   drops, sgVars, wire, stopVars, mon_pc, pings>>

\* reconnect() fails: return (False, "Not connected to FluidNC")
CmdReconnectFail ==
    /\ cmd_pc = "reconnect"
    /\ connection' = "closed"
    /\ connected' = FALSE
    /\ rx' = <<>>
    /\ lock' = "free"
    /\ cmd_pc' = "idle"
    /\ UNCHANGED <<backoffVars, redoVars, fixedVars, allocVars, resetVars, rec_pc, storeVars, queue_lock, processing, opc, orchLocals, layoutVars,
                   engraving, ctl_pending, ctl_async, drops, sgVars, wire,
                   stopVars, cmds, mon_pc, pings>>

\* reconnect() succeeds: connect() calls send_command("$$"), which waits for
\* self.lock, held by this very call
CmdReconnectOk ==
    /\ cmd_pc = "reconnect"
    /\ connection' = "open"
    /\ connected' = TRUE
    /\ rx' = <<>>
    /\ ctl_pending' = 0
    /\ ctl_async' = 0
    /\ cmd_pc' = "blocked"
    /\ UNCHANGED <<backoffVars, redoVars, fixedVars, allocVars, resetVars, rec_pc, storeVars, queue_lock, processing, opc, orchLocals, layoutVars,
                   lock, engraving, drops, sgVars, wire, stopVars, cmds, mon_pc,
                   pings>>

\* connection.sendall(cmd); a failed write sets connected = False and returns
CmdWrite ==
    /\ cmd_pc = "write"
    /\ IF connection = "open"
       THEN /\ ctl_pending' = ctl_pending + 1
            /\ ctl_async' = 0
            /\ wire' = Traced(Event("cmd", "write", "$X"))
            /\ cmd_pc' = "read"
            /\ UNCHANGED <<connected, lock>>
       ELSE /\ connected' = FALSE
            /\ lock' = "free"
            /\ cmd_pc' = "idle"
            /\ UNCHANGED <<ctl_pending, ctl_async, wire>>
    /\ UNCHANGED <<backoffVars, redoVars, fixedVars, allocVars, resetVars, rec_pc, storeVars, queue_lock, processing, opc, orchLocals, layoutVars,
                   connection, engraving, rx, drops, sgVars, stopVars, cmds,
                   mon_pc, pings>>

\* response = _read_line(2.0) or '': the first line, whatever it is, or none
CmdRead ==
    /\ cmd_pc = "read"
    /\ IF rx # <<>> /\ connection = "open"
       THEN /\ rx' = Tail(rx)
            /\ wire' = Traced(Event("cmd", "read", "line"))
       ELSE /\ rx' = rx
            /\ wire' = Traced(Event("cmd", "read", "timeout"))
    /\ lock' = "free"
    /\ cmd_pc' = "idle"
    /\ UNCHANGED <<backoffVars, redoVars, fixedVars, allocVars, resetVars, rec_pc, storeVars, queue_lock, processing, opc, orchLocals, layoutVars,
                   connected, connection, engraving, ctl_pending, ctl_async,
                   drops, sgVars, stopVars, cmds, mon_pc, pings>>

\* ---------------------------------- _monitor_loop (laser_controller.py)
\* the sleep of one iteration of the monitor, in seconds
MONITOR_SLEEP == 5

\* time.sleep(5); if self._engraving: continue; then ping or reconnect
MonWake ==
    /\ mon_pc = "sleep"
    /\ pings < MaxPings
    /\ pings' = pings + 1
    /\ mon_slept' = mon_slept + MONITOR_SLEEP
    /\ UNCHANGED mon_fails
    /\ mon_pc' = IF engraving THEN "sleep"
                 ELSE IF connected THEN "ping" ELSE "reconnect"
    /\ UNCHANGED <<redoVars, fixedVars, allocVars, resetVars, rec_pc, storeVars, queue_lock, processing, opc, orchLocals, layoutVars,
                   laserVars, sgVars, wire, stopVars, cmd_pc, cmds>>

\* the ping sent without taking self.lock
MonPing_nolock ==
    /\ mon_pc = "ping"
    /\ lock' = lock
    /\ wire' = Traced(Event("monitor", "write", "?"))
    /\ \/ /\ connection = "open"
          /\ Len(rx) < MaxRx
          /\ rx' = Append(rx, "<Run|MPos:0,0,0>")
       \/ rx' = rx
    /\ mon_pc' = "recv"
    /\ mon_slept' = 0
    /\ UNCHANGED mon_fails
    /\ UNCHANGED <<redoVars, fixedVars, allocVars, resetVars, rec_pc, storeVars, queue_lock, processing, opc, orchLocals, layoutVars,
                   connected, connection, engraving, ctl_pending, ctl_async,
                   drops, sgVars, stopVars, cmd_pc, cmds, pings>>

\* with self.lock: sendall(b'?\n'); the controller answers `?` with a status
\* report, unless it does not answer at all
MonPing ==
    /\ mon_pc = "ping"
    /\ lock = "free"
    /\ lock' = "monitor"
    /\ wire' = Traced(Event("monitor", "write", "?"))
    /\ \/ /\ connection = "open"
          /\ Len(rx) < MaxRx
          /\ rx' = Append(rx, "<Run|MPos:0,0,0>")
       \/ rx' = rx
    /\ mon_pc' = "recv"
    /\ mon_slept' = 0
    /\ UNCHANGED mon_fails
    /\ UNCHANGED <<redoVars, fixedVars, allocVars, resetVars, rec_pc, storeVars, queue_lock, processing, opc, orchLocals, layoutVars,
                   connected, connection, engraving, ctl_pending, ctl_async,
                   drops, sgVars, stopVars, cmd_pc, cmds, pings>>

\* settimeout(2); data = recv(64): the bytes at hand; none, or a dead
\* transport, raises out of the with block; so does a serial port, which has
\* neither settimeout nor recv (AttributeError)
MonRecv ==
    /\ mon_pc = "recv"
    /\ wire' = Traced(Event("monitor", "read", "recv"))
    /\ IF rx # <<>> /\ connection = "open" /\ connection_type = "network"
       THEN /\ \E k \in 1..Len(rx) : rx' = SubSeq(rx, k + 1, Len(rx))
            /\ mon_pc' = "sleep"
       ELSE /\ rx' = rx
            /\ mon_pc' = "failed"
    /\ lock' = "free"
    /\ UNCHANGED <<backoffVars, redoVars, fixedVars, allocVars, resetVars, rec_pc, storeVars, queue_lock, processing, opc, orchLocals, layoutVars,
                   connected, connection, engraving, ctl_pending, ctl_async,
                   drops, sgVars, stopVars, cmd_pc, cmds, pings>>

\* except Exception: self.connected = False; self._line_buf = ''
MonFailed ==
    /\ mon_pc = "failed"
    /\ connected' = FALSE
    /\ mon_pc' = "reconnect"
    /\ UNCHANGED <<backoffVars, redoVars, fixedVars, allocVars, resetVars, rec_pc, storeVars, queue_lock, processing, opc, orchLocals, layoutVars,
                   connection, lock, engraving, rx, ctl_pending, ctl_async,
                   drops, sgVars, wire, stopVars, cmd_pc, cmds, pings>>

\* if not self.connected: reconnect() = disconnect(); connect(), no lock
\* taken; connect() fails, or succeeds and goes on to send_command("$$")
MonReconnect ==
    /\ mon_pc = "reconnect"
    /\ rx' = <<>>
    /\ \/ /\ connection' = "closed"
          /\ connected' = FALSE
          /\ mon_pc' = "sleep"
          /\ mon_fails' = mon_fails + 1
          /\ UNCHANGED <<ctl_pending, ctl_async>>
       \/ /\ connection' = "open"
          /\ connected' = TRUE
          /\ ctl_pending' = 0
          /\ ctl_async' = 0
          /\ mon_pc' = "init"
          /\ mon_fails' = 0
    /\ mon_slept' = 0
    /\ UNCHANGED <<redoVars, fixedVars, allocVars, resetVars, rec_pc, storeVars, queue_lock, processing, opc, orchLocals, layoutVars,
                   lock, engraving, drops, sgVars, wire, stopVars, cmd_pc, cmds,
                   pings>>

\* connect(): send_command("$$") under self.lock
MonInit ==
    /\ mon_pc = "init"
    /\ lock = "free"
    /\ lock' = "monitor"
    /\ IF connection = "open"
       THEN /\ ctl_pending' = ctl_pending + 1
            /\ ctl_async' = 0
            /\ wire' = Traced(Event("monitor", "write", "$$"))
            /\ mon_pc' = "initread"
            /\ UNCHANGED connected
       ELSE /\ connected' = FALSE
            /\ mon_pc' = "initread"
            /\ UNCHANGED <<ctl_pending, ctl_async, wire>>
    /\ UNCHANGED <<backoffVars, redoVars, fixedVars, allocVars, resetVars, rec_pc, storeVars, queue_lock, processing, opc, orchLocals, layoutVars,
                   connection, engraving, rx, drops, sgVars, stopVars, cmd_pc,
                   cmds, pings>>

\* the response to "$$" (or none), and the lock released
MonInitRead ==
    /\ mon_pc = "initread"
    /\ IF rx # <<>> /\ connection = "open" /\ connected
       THEN /\ rx' = Tail(rx)
            /\ wire' = Traced(Event("monitor", "read", "line"))
       ELSE UNCHANGED <<rx, wire>>
    /\ lock' = "free"
    /\ mon_pc' = "sleep"
    /\ UNCHANGED <<backoffVars, redoVars, fixedVars, allocVars, resetVars, rec_pc, storeVars, queue_lock, processing, opc, orchLocals, layoutVars,
                   connected, connection, engraving, ctl_pending, ctl_async,
                   drops, sgVars, stopVars, cmd_pc, cmds, pings>>

\* ------------------------------- /api/laser_reconnect (web_server.py)
RecFrame == <<cmd_pc, cmds, mon_pc, pings, backoffVars, redoVars, fixedVars, allocVars, resetVars, storeVars,
              queue_lock, processing, opc, orchLocals, layoutVars, engraving, drops, sgVars,
              stopVars>>

\* laser.reconnect() = disconnect(); connect(), no lock taken; connect()
\* fails, or succeeds and goes on to send_command("$$")
WebReconnect ==
    /\ rec_pc = "idle"
    /\ rx' = <<>>
    /\ wire' = Traced(Event("handler", "reopen", ""))
    /\ \/ /\ connection' = "closed"
          /\ connected' = FALSE
          /\ rec_pc' = "done"
          /\ UNCHANGED <<ctl_pending, ctl_async>>
       \/ /\ connection' = "open"
          /\ connected' = TRUE
          /\ ctl_pending' = 0
          /\ ctl_async' = 0
          /\ rec_pc' = "init"
    /\ UNCHANGED <<RecFrame, lock>>

\* connect(): send_command("$$") under self.lock
WebInit ==
    /\ rec_pc = "init"
    /\ lock = "free"
    /\ lock' = "handler"
    /\ IF connection = "open"
       THEN /\ ctl_pending' = ctl_pending + 1
            /\ ctl_async' = 0
            /\ wire' = Traced(Event("handler", "write", "$$"))
            /\ UNCHANGED connected
       ELSE /\ connected' = FALSE
            /\ UNCHANGED <<ctl_pending, ctl_async, wire>>
    /\ rec_pc' = "initread"
    /\ UNCHANGED <<RecFrame, connection, rx>>

\* the response to "$$" (or none), and the lock released
WebInitRead ==
    /\ rec_pc = "initread"
    /\ IF rx # <<>> /\ connection = "open" /\ connected
       THEN /\ rx' = Tail(rx)
            /\ wire' = Traced(Event("handler", "read", "line"))
       ELSE UNCHANGED <<rx, wire>>
    /\ lock' = "free"
    /\ rec_pc' = "done"
    /\ UNCHANGED <<RecFrame, connected, connection, ctl_pending, ctl_async>>

laser_reconnect == WebReconnect \/ WebInit \/ WebInitRead

\* ------------------------------------------------------------ specification
Orchestrator ==
    \/ OrchSelect
    \/ OrchClaim
    \/ OrchRedo
    \/ OrchPlace
    \/ OrchRefused
    \/ OrchRequeued
    \/ OrchRaise
    \/ OrchCompile
    \/ OrchSave
    \/ OrchRecord
    \/ OrchFinalize
    \/ OrchRelease
    \/ OrchExcept
    \/ OrchExcepted

send_gcode ==
    \/ SgCall
    \/ SgAcquire
    \/ SgReconnectFail
    \/ SgReconnectOk
    \/ SgFlush
    \/ SgWrite
    \/ SgWriteError
    \/ SgRead
    \/ SgTimeout
    \/ SgDone
    \/ SgFinally
    \/ SgUnlock
    \/ SgReturn

stop == StopHold \/ StopReset

send_command == CmdAcquire \/ CmdReconnectFail \/ CmdReconnectOk \/ CmdWrite \/ CmdRead

_monitor_loop ==
    \/ MonWake
    \/ MonPing
    \/ MonRecv
    \/ MonFailed
    \/ MonReconnect
    \/ MonInit
    \/ MonInitRead

\* one job streamed to a controller that answers, reports, resets and drops
Next ==
    \/ Orchestrator
    \/ send_gcode
    \/ CtlAck
    \/ CtlAsync
    \/ NetDrop
    \/ stop

Spec == Init /\ [][Next]_vars

SpecGlyph == InitGlyph /\ [][Next]_vars

\* the queue: names enqueued while the orchestrator drains it
NextQueue ==
    \/ (nextId < MaxJobs /\ \E name \in Names : enqueue_name(name))
    \/ Orchestrator
    \/ send_gcode
    \/ CtlAck
    \/ NetDrop

SpecQueue == InitQueue /\ [][NextQueue]_vars

\* the allocator alone
NextAlloc == FindFound \/ FindNone

SpecAlloc == InitAlloc /\ [][NextAlloc]_vars

\* the allocator step by step; the thread that called it keeps running
NextFind == FesFit \/ FesTooWide \/ FesScanHit \/ FesRecurse \/ FesNone

SpecFind == InitAlloc /\ [][NextFind]_vars /\ WF_vars(NextFind)

\* one job, the monitor and one reconnect request of the operator
NextMonitor ==
    \/ Orchestrator
    \/ send_gcode
    \/ CtlAck
    \/ _monitor_loop
    \/ laser_reconnect

SpecMonitor == Init /\ [][NextMonitor]_vars

\* the layout and the handlers that change it
NextLayout == WebAddPlacement \/ WebClear \/ ResetArchive \/ ResetNoFile \/ LayoutRestart

SpecLayout == InitLayout /\ [][NextLayout]_vars

\* the job store alone: start-up on a stored log, then names and redo requests
MaxStore == 3
NextStore ==
    \/ Startup
    \/ (opc = "idle" /\ nextId < MaxStore /\ \E name \in Names : enqueue_name(name))
    \/ (opc = "idle" /\ nextId < MaxStore /\ \E id \in 1..nextId : RedoAdd(id))
    \/ (opc = "idle" /\ \E id \in 0..(nextId + 1) : RedoUnknown(id))
    \/ RedoCopy

SpecStore == InitStore /\ [][NextStore]_vars

\* the threads that share the transport under self.lock: stream, handlers, monitor
NextLock ==
    \/ Orchestrator
    \/ send_gcode
    \/ CtlAck
    \/ send_command
    \/ _monitor_loop

SpecLock == Init /\ [][NextLock]_vars

\* ------------------------------------------------------------------ claims
StatusOf(js, id) == get_job(js, id).status

StatusEdges == {<<"pending", "active">>, <<"active", "pending">>,
                <<"active", "finished">>, <<"active", "failed">>,
                <<"active", "stopped">>}

Refusal == find_empty_space(placements, RawWidth(get_job(jobs, job).name, INITIAL_HEIGHT),
                            INITIAL_HEIGHT, INITIAL_HEIGHT) = {}

\* C1: a job is created pending and its status changes only along
\* pending -> active (the claim), active -> pending (only when the allocator
\* refused) and active -> finished | failed | stopped; a finished, failed or
\* stopped job keeps its status in every step.
C1_StatusEdges ==
    [][\A n \in 1..Len(jobs') :
         LET j == jobs'[n]
         IN  IF HasJob(jobs, j.id)
             THEN \/ StatusOf(jobs, j.id) = j.status
                  \/ /\ <<StatusOf(jobs, j.id), j.status>> \in StatusEdges
                     /\ j.id = job'
                     /\ (j.status = "pending" => Refusal)
             ELSE j.status = "pending"]_vars

\* a job is being processed while an earlier job is already terminal
C1_Witness ==
    /\ \E n \in 1..Len(jobs) : jobs[n].status \in Terminal /\ jobs[n].id # job
    /\ \E n \in 1..Len(jobs) : jobs[n].status = "active"
    /\ opc = "finalize"

ActiveJobs == {n \in 1..Len(jobs) : jobs[n].status = "active"}

\* C2: at most one job is active, and a job is active only while
\* `processing` is true.
C2_OneActive ==
    /\ Cardinality(ActiveJobs) <= 1
    /\ (ActiveJobs # {} => processing)

\* a job is active while another one is waiting
C2_Witness ==
    /\ ActiveJobs # {}
    /\ \E n \in 1..Len(jobs) : jobs[n].status = "pending"

PendingIds == {jobs[n].id : n \in {m \in 1..Len(jobs) : jobs[m].status = "pending"}}

\* C3: the log is kept newest first (ids are handed out in the order of the
\* add_job calls), and the job the orchestrator has selected to claim is the
\* pending job that was added earliest.
C3_Fifo ==
    /\ \A n, m \in 1..Len(jobs) : n < m => jobs[n].id > jobs[m].id
    /\ (opc = "claim" => job \in PendingIds /\ \A id \in PendingIds : job <= id)

\* the orchestrator selects among two pending jobs
C3_Witness == opc = "claim" /\ Cardinality(PendingIds) >= 2

\* the stream's own events in its trace
Writes(upto) == {p \in 1..upto : wire[p].ev = "write"}
Acks(upto) == {p \in 1..upto : wire[p].ev = "read" /\ wire[p].arg \in {"ok", "error"}}
IsAck(p) == wire[p].ev = "read" /\ wire[p].arg \in {"ok", "error"}

\* C4: stop-and-wait. The k-th write of a stream is the k-th command of the
\* program; a command is written only when every earlier command has had
\* exactly one terminal response consumed, the line read last being that
\* response; a line is read only while a written command awaits its
\* response; a stream that returns success has written exactly N commands.
C4_StopAndWait ==
    /\ \A p \in 1..Len(wire) :
         /\ wire[p].ev = "write" =>
              /\ Cardinality(Writes(p)) <= Len(CommandsOf(gcode))
              /\ wire[p].arg = CommandsOf(gcode)[Cardinality(Writes(p))]
              /\ Cardinality(Acks(p)) = Cardinality(Writes(p)) - 1
              /\ (p > 1 => IsAck(p - 1))
         /\ wire[p].ev = "read" =>
              Cardinality(Writes(p - 1)) = Cardinality(Acks(p - 1)) + 1
    /\ (opc = "engraved" /\ success /\ CommandsOf(gcode) # <<>> =>
          /\ Cardinality(Writes(Len(wire))) = Len(CommandsOf(gcode))
          /\ IsAck(Len(wire)))

\* a whole program streamed, with a status report skipped on the way
C4_Witness ==
    /\ opc = "engraved"
    /\ success
    /\ Cardinality(Writes(Len(wire))) >= 2
    /\ \E p \in 1..Len(wire) : wire[p].arg = "skipped"

C6_StopBypassesLock ==
    /\ (lock = "stream" /\ stop_pc = "idle" => ENABLED StopHold)
    /\ (lock = "stream" /\ stop_pc = "sleep" => ENABLED StopReset)
    /\ \A p \in 1..Len(estop) :
         estop[p].byte = "0x18" => p > 1 /\ estop[p - 1].byte = "!"

\* stop() wrote both bytes and returned while the stream kept the lock
C6_Witness ==
    /\ Len(estop) = 2
    /\ estop[1] = [streaming |-> TRUE, byte |-> "!"]
    /\ estop[2] = [streaming |-> TRUE, byte |-> "0x18"]
    /\ stop_pc = "idle"
    /\ lock = "stream"
    /\ sg_pc = "read"

HasRead(kind) == \E p \in 1..Len(wire) : wire[p].ev = "read" /\ wire[p].arg = kind

\* C7: a stream that consumed an `error` or `alarm` response and met no
\* timeout and no write failure has written every command of the program
\* and returns success.
C7_ErrorDoesNotAbort ==
    opc = "engraved" /\ HasRead("error") /\ ~HasRead("timeout")
        /\ message.text # "Send error at line"
    => /\ success
       /\ Cardinality(Writes(Len(wire))) = Len(CommandsOf(gcode))

\* the first command was answered with an error and the next one was written
C7_Witness ==
    /\ opc = "engraved"
    /\ success
    /\ \E p \in 1..(Len(wire) - 1) :
          wire[p].ev = "read" /\ wire[p].arg = "error" /\ wire[p + 1].ev = "write"

\* C8: after a read timeout while waiting on command N the stream does
\* nothing more on the transport, returns failure with "Timeout waiting for
\* response at line N", and the job ends failed with that message as error.
C8_Timeout ==
    HasRead("timeout") =>
        /\ wire[Len(wire)].arg = "timeout"
        /\ (opc \in {"engraved", "finalize", "finalized"} =>
              /\ ~success
              /\ message.text = "Timeout waiting for response at line"
              /\ message.line = Cardinality(Writes(Len(wire))))
        /\ (opc = "finalized" =>
              /\ StatusOf(jobs, job) = "failed"
              /\ get_job(jobs, job).error = message)

\* the second command timed out and the job has been marked
C8_Witness ==
    /\ opc = "finalized"
    /\ HasRead("timeout")
    /\ message.line = 2

\* stop() wrote its first byte while the stream was writing or reading
StoppedMidStream ==
    /\ estop # <<>>
    /\ estop[1].streaming

\* C9: when stop is invoked while the orchestrator streams a job, the stream
\* ends in failure, the job ends stopped and no placement is recorded.
C9_StopEndsStopped ==
    opc = "finalized" /\ StoppedMidStream =>
        /\ ~success
        /\ StatusOf(jobs, job) = "stopped"
        /\ \A k \in 1..Len(placements) :
             placements[k] # Placement(get_job(jobs, job).name, place.x_local, place.y_local,
                                       place.actual_w, place.actual_h, place.final_height)

\* C10: the orchestrator changes the placement set only for a stream that
\* returned success: a failed stream (timeout, transport error, not
\* connected, stop) leaves the placements as they were.
C10_NoPlacementOnFailure ==
    [][placements' # placements => opc = "engraved" /\ success]_vars

\* a job whose stream failed on a dead transport has been marked
C10_Witness ==
    /\ opc = "finalized"
    /\ ~success
    /\ message.text = "Send error at line"

\* C11: whenever a stream returns success, the orchestrator records exactly
\* one placement for the job, under its name, and then marks the job
\* finished, for newly compiled jobs and for redo jobs alike.
C11_SuccessRecordsOnce ==
    [][/\ (opc = "engraved" /\ opc' = "finalize" /\ success =>
              /\ Len(placements') = Len(placements) + 1
              /\ SubSeq(placements', 1, Len(placements)) = placements
              /\ placements'[Len(placements')].name = get_job(jobs, job).name)
       /\ (opc = "finalize" /\ opc' = "finalized" /\ success =>
              /\ placements' = placements
              /\ StatusOf(jobs', job) = "finished")]_vars

\* C12: after a failed stream the job is stopped exactly when the message
\* mentions a stop or an alarm and failed otherwise, and its error field is
\* the message.
C12_FailureStatus ==
    opc = "finalized" /\ ~success =>
        /\ (StatusOf(jobs, job) = "stopped"
              <=> (Mentions(message, "stopped") \/ Mentions(message, "alarm")))
        /\ StatusOf(jobs, job) \in {"stopped", "failed"}
        /\ get_job(jobs, job).error = message

\* a stream that found the controller unreachable has been marked failed
C12_Witness ==
    /\ opc = "finalized"
    /\ ~success
    /\ message.text = "Not connected to FluidNC"
    /\ StatusOf(jobs, job) = "failed"

\* C13: the step that handles a refusal puts the job back to pending and
\* changes nothing else: every other field of every job, the program files
\* and the placements stay as they are, and in the iteration no overlay
\* hook was called and nothing was written to the controller.
C13_RefusalFrame ==
    [][opc = "claimed" /\ opc' = "requeued" =>
          /\ Len(jobs') = Len(jobs)
          /\ \A n \in 1..Len(jobs) :
               jobs'[n] = IF jobs[n].id = job
                          THEN [jobs[n] EXCEPT !.status = "pending"]
                          ELSE jobs[n]
          /\ get_job(jobs', job).gcode_file = 0
          /\ gcode_dir' = gcode_dir
          /\ placements' = placements
          /\ layout_dir' = layout_dir
          /\ obs_calls = <<>> /\ obs_calls' = <<>>
          /\ wire = <<>> /\ wire' = <<>>
          /\ sg_pc = "idle" /\ sg_pc' = "idle"
          /\ ctl_pending' = ctl_pending]_vars

\* a job was refused after an earlier job had been engraved and recorded
C13_Witness ==
    /\ opc = "requeued"
    /\ StatusOf(jobs, job) = "pending"
    /\ placements # <<>>
    /\ \E n \in 1..Len(jobs) : jobs[n].status = "finished"

\* C14: after start-up no job is active; every job stored as active is
\* stopped with the error "Interrupted by server restart"; every other job is
\* restored as stored
C14_LoadResetsActive ==
    [][opc = "boot" /\ opc' = "idle" =>
          /\ Len(jobs') = Len(jobs_file)
          /\ \A n \in 1..Len(jobs') : jobs'[n].status # "active"
          /\ \A n \in 1..Len(jobs_file) :
                IF jobs_file[n].status = "active"
                THEN /\ jobs'[n].status = "stopped"
                     /\ jobs'[n].error.text = "Interrupted by server restart"
                     /\ jobs'[n].id = jobs_file[n].id
                ELSE jobs'[n] = jobs_file[n]]_vars

C14_Witness ==
    /\ opc = "idle"
    /\ nextId = Len(jobs)
    /\ Len(jobs) = 2
    /\ jobs[2].status = "stopped"
    /\ jobs[2].error = Msg("Interrupted by server restart", 0, "")
    /\ jobs[1].status = "finished"

\* a job has an artifact: its record names a program file and the file exists
HasArtifact(js, dir, id) == get_job(js, id).gcode_file # 0 /\ get_gcode_path(js, dir, id) # 0

C17_PlacementsInBounds ==
    \A n \in 1..Len(placements) :
        /\ placements[n].width > 0
        /\ placements[n].height > 0
        /\ placements[n].x >= 0
        /\ placements[n].y >= 0
        /\ placements[n].x + placements[n].width <= ACTIVE_WIDTH
        /\ placements[n].y + placements[n].height <= ACTIVE_HEIGHT

\* two rectangles are at least d apart on the X axis or on the Y axis
Separated(a, b, d) ==
    \/ a.x + a.width + d <= b.x
    \/ b.x + b.width + d <= a.x
    \/ a.y + a.height + d <= b.y
    \/ b.y + b.height + d <= a.y

\* C18: every two distinct recorded placements are at least PADDING_MM apart
\* on the X axis or on the Y axis
C18_PlacementsSeparated ==
    \A n, m \in 1..Len(placements) :
        n < m => Separated(placements[n], placements[m], PADDING_MM)

\* the dimensions <<w, h>> a request has when shrunk to the text height target
RECURSIVE ShrunkTo(_, _, _, _)
ShrunkTo(w, h, th, target) ==
    IF th <= target THEN <<w, h>>
    ELSE ShrunkTo((w * Shrunk(th)) \div th, (h * Shrunk(th)) \div th, Shrunk(th), target)

\* the rectangle a returned position stands for
Candidate ==
    LET d == ShrunkTo(request.w, request.h, request.th, position[3])
    IN  [x |-> position[1], y |-> position[2], width |-> d[1], height |-> d[2]]

Returned == alloc_pc = "returned" /\ position # <<>>

\* C19: a returned origin keeps the shrunk rectangle inside the active area,
\* and a request no larger than the active area is never refused on an empty
\* board
C19_OriginInArea ==
    /\ (Returned =>
          /\ 0 <= Candidate.x
          /\ Candidate.x <= ACTIVE_WIDTH - Candidate.width
          /\ 0 <= Candidate.y
          /\ Candidate.y <= ACTIVE_HEIGHT - Candidate.height)
    /\ (alloc_pc = "returned" /\ placements = <<>> /\ request.w <= ACTIVE_WIDTH
            /\ request.h <= ACTIVE_HEIGHT => position # <<>>)

C19_Witness ==
    /\ Returned
    /\ placements = <<>>
    /\ request.w = ACTIVE_WIDTH
    /\ request.h = ACTIVE_HEIGHT
    /\ position[3] = request.th

\* a rectangle grown by d on every side
Inflated(r, d) == [x |-> r.x - d, y |-> r.y - d, width |-> r.width + 2 * d,
                   height |-> r.height + 2 * d]

\* the AABB overlap test
Overlap(a, b) ==
    /\ a.x < b.x + b.width
    /\ b.x < a.x + a.width
    /\ a.y < b.y + b.height
    /\ b.y < a.y + a.height

\* C20 (as stated): a returned candidate inflated by PADDING_MM overlaps no
\* placement inflated by PADDING_MM
C20_BothInflated ==
    Returned =>
        \A n \in 1..Len(placements) :
            ~Overlap(Inflated(Candidate, PADDING_MM), Inflated(placements[n], PADDING_MM))

\* C20 (amended): a returned candidate inflated by PADDING_MM overlaps no
\* placement as recorded
C20_CandidateInflated ==
    Returned =>
        \A n \in 1..Len(placements) :
            ~Overlap(Inflated(Candidate, PADDING_MM), placements[n])

C20_Witness ==
    /\ Returned
    /\ \E n \in 1..Len(placements) :
          /\ Overlap(Inflated(Candidate, PADDING_MM), Inflated(placements[n], PADDING_MM))
          /\ ~Overlap(Inflated(Candidate, PADDING_MM), placements[n])

\* a to the power k
RECURSIVE Pow(_, _)
Pow(a, k) == IF k = 0 THEN 1 ELSE a * Pow(a, k - 1)

\* th is max(h0 * 0.8^k, MIN_HEIGHT), each of the k steps having dropped at most
\* one unit (a micrometre) in the integer arithmetic of the model
MaxShrinks == 6
IsShrunkHeight(th, h0) ==
    \E k \in 0..MaxShrinks :
        \/ /\ th > MIN_HEIGHT
           /\ th * Pow(5, k) <= h0 * Pow(4, k)
           /\ th * Pow(5, k) >= h0 * Pow(4, k) - k * Pow(5, k)
        \/ /\ th = MIN_HEIGHT
           /\ h0 * Pow(4, k) - k * Pow(5, k) < MIN_HEIGHT * Pow(5, k) \/ h0 = MIN_HEIGHT

\* the rectangle of the innermost call has a free origin on the grid
HasFreeOrigin ==
    \E gx \in 0..(ACTIVE_WIDTH \div GRID_SIZE), gy \in 0..(ACTIVE_HEIGHT \div GRID_SIZE) :
        LET r == [x |-> gx * GRID_SIZE, y |-> gy * GRID_SIZE, width |-> frame.w,
                  height |-> frame.h]
        IN  /\ r.x + r.width <= ACTIVE_WIDTH
            /\ r.y + r.height <= ACTIVE_HEIGHT
            /\ \A n \in 1..Len(placements) : Separated(r, placements[n], PADDING_MM)

\* C21: find_empty_space terminates; a returned height is max(h0 * 0.8^k, 2.0),
\* between 2.0 and h0, with width and height scaled by the same ratio; it
\* refuses only at the minimum height, the request being wider than the
\* active area or without a free candidate
C21_ShrinkTerminates ==
    /\ <>(alloc_pc = "returned")
    /\ [](alloc_pc = "returned" /\ position # <<>> =>
            /\ position[3] = frame.th
            /\ IsShrunkHeight(position[3], request.th)
            /\ position[3] <= request.th
            /\ position[3] >= MIN_HEIGHT
            /\ frame.w * request.th = request.w * frame.th
            /\ frame.h * request.th = request.h * frame.th)
    /\ [](alloc_pc = "returned" /\ position = <<>> =>
            /\ frame.th = MIN_HEIGHT
            /\ frame.w > ACTIVE_WIDTH \/ ~HasFreeOrigin)

C21_Witness ==
    /\ alloc_pc = "returned"
    /\ position # <<>>
    /\ placements # <<>>
    /\ position[3] < request.th
    /\ position[3] > MIN_HEIGHT

C23_RestartKeepsPlacements ==
    /\ [](layout_load(layout_dir) = placements)
    /\ [][placements' = layout_load(layout_dir) => placements' = placements]_vars

C23_Witness ==
    /\ resets > 0
    /\ Len(placements) = 2
    /\ placements[1] # placements[2]
    /\ DATA_FILE \in DOMAIN layout_dir
    /\ layout_dir[DATA_FILE].placements = placements

\* the steps of the monitor that write to, read from, close or reopen the
\* connection
MonitorTouches ==
    /\ mon_pc \in {"ping", "recv", "reconnect", "init", "initread"}
    /\ mon_pc' # mon_pc

\* C24: while a stream is in progress the monitor neither writes to nor
\* reads from the connection, and neither closes nor reopens it
C24_MonitorSuspended ==
    [][engraving /\ sg_pc \in {"write", "read"} => ~MonitorTouches]_vars

\* C25: a failed ping marks the connection dead, and the monitor sleeps 5 s
\* before its first reconnect attempt, twice as long after each attempt that
\* fails in a row, and never more than 120 s
C25_ExponentialBackoff ==
    [][/\ (mon_pc = "failed" /\ mon_pc' # "failed" => ~connected')
       /\ (mon_pc = "reconnect" /\ mon_pc' # "reconnect" =>
              mon_slept = IF 5 * Pow(2, mon_fails) < 120 THEN 5 * Pow(2, mon_fails)
                          ELSE 120)]_vars

\* the stream that has returned failed on the transport: a write raised, or
\* the reads of a dead connection returned nothing
WriteFailed == sg_ret[2].text = "Send error at line"

ReadDead ==
    /\ sg_ret[2].text = "Timeout waiting for response at line"
    /\ connection = "broken"
    /\ wire # <<>>
    /\ wire[Len(wire)] = Event("stream", "read", "timeout")
    /\ rx # <<>>

\* C26: a stream that fails on a transport write or on a read of zero bytes
\* returns failure with the underlying error as its message, and connected is
\* false when it returns
C26_TransportFailureDisconnects ==
    sg_pc = "return" /\ (WriteFailed \/ ReadDead) =>
        /\ ~sg_ret[1]
        /\ sg_ret[2].detail = "OSError"
        /\ ~connected

\* C27: a job whose text compiles to no geometry ends failed with an error
\* that mentions "No paths generated"; it is never finished and no placement
\* is recorded for it
C27_NoGeometryFails ==
    /\ [][\A id \in 1..Len(jobs) :
            get_job(jobs, id).name \in Glyphless /\ get_job(jobs', id).status = "finished"
                => get_job(jobs, id).status = "finished"]_vars
    /\ [][\A n \in 1..Len(placements') :
            placements'[n].name \in Glyphless => n <= Len(placements)]_vars

\* C28: every access of the job log (add_job, update_job, get_next_pending,
\* save_gcode, save) is made by a thread that holds queue_lock
C28_JobLogUnderLock == log_locked

\* ------------------------------------- the board shared with the handlers
\* the orchestrator with one job, and the layout requests of the web server
\* (served by their own threads) arriving after the allocator's check, when
\* the stream has returned and the placement is about to be recorded
Allocated == opc = "engraved" /\ resets = 0

NextBoard ==
    \/ Orchestrator
    \/ send_gcode
    \/ CtlAck
    \/ NetDrop
    \/ (Allocated /\ WebAddPlacement)
    \/ (Allocated /\ WebClear)
    \/ (Allocated /\ ResetArchive)
    \/ (Allocated /\ ResetNoFile)

SpecBoard == Init /\ [][NextBoard]_vars

\* C29: only the orchestrator changes the placements: no handler adds, clears
\* or archives them, so that none appears between the allocator's check and
\* the recording of the placement
C29_OnlyOrchestratorPlaces ==
    [][placements' # placements => opc = "engraved" /\ opc' = "finalize"]_vars

\* acknowledgements (ok, error or alarm) read by the stream so far
Acknowledged == {k \in 1..Len(wire) : /\ wire[k].who = "stream" /\ wire[k].ev = "read"
                                      /\ wire[k].arg \in {"ok", "error"}}

\* C30: progress_callback is called once per acknowledged command, with
\* (i + 1, total): the first argument counts up from 1 and total is constant;
\* a stream that succeeds has made exactly total calls, one that fails at
\* command N exactly N - 1
C30_ProgressPerCommand ==
    /\ sg_pc # "idle" =>
          /\ \A k \in 1..Len(progress) : progress[k] = <<k, Len(commands)>>
          /\ Len(progress) = Cardinality(Acknowledged)
    /\ sg_pc = "return" /\ sg_ret[1] => Len(progress) = Len(commands)
    /\ sg_pc = "return" /\ ~sg_ret[1] /\ sg_ret[2].line > 0
          => Len(progress) = sg_ret[2].line - 1

C30_Witness ==
    /\ sg_pc = "return"
    /\ ~sg_ret[1]
    /\ sg_ret[2].line = 2
    /\ progress = <<<<1, Len(commands)>>>>

\* the step is a read of the stream that consumed a line
StreamConsumes ==
    /\ sg_pc = "read"
    /\ rx # <<>>
    /\ Len(wire') = Len(wire) + 1
    /\ wire'[Len(wire')].who = "stream"
    /\ wire'[Len(wire')].ev = "read"
    /\ wire'[Len(wire')].arg # "timeout"

GenArgs ==
    {[raw_commands |-> <<<<"moveTo">>>> \o tl, passes |-> ps, bold_repeats |-> b] :
        tl \in UNION {[1..k -> RawOps] : k \in 0..(MaxOps - 1)},
        ps \in 1..MaxPasses, b \in 1..MaxBold}

InitGen ==
    /\ jobs = <<>>
    /\ jobs_file = <<>>
    /\ nextId = 0
    /\ opc = "idle"
    /\ NoCall
    /\ gen_args \in GenArgs
    /\ connection_type = "network"
    /\ Constructed(<<>>, <<>>)

Generate ==
    /\ gen_args # NoArgs
    /\ gcode = <<>>
    /\ \E name \in Names :
          gcode' = generate_program(gen_args.raw_commands, gen_args.passes,
                                    gen_args.bold_repeats, name, 0, 0,
                                    INITIAL_HEIGHT, INITIAL_HEIGHT)
    /\ UNCHANGED <<envVars, storeVars, queue_lock, processing, opc, job, place, is_redo,
                   success, message, obs_calls, layoutVars, laserVars, sgVars, wire,
                   stopVars>>

SpecGen == InitGen /\ [][Generate]_vars

LastCommands(n) ==
    LET cs == CommandsOf(gcode)
    IN  IF Len(cs) < n THEN <<>> ELSE SubSeq(cs, Len(cs) - n + 1, Len(cs))

CountOf(code) == Cardinality({k \in 1..Len(CommandsOf(gcode)) : CommandsOf(gcode)[k] = code})

Generated == gen_args # NoArgs /\ gcode # <<>>

InitSerial ==
    \E name \in Names, transport \in {"network", "serial"} :
       \/ InitOn(transport, <<NewJob(1, name, "twitch")>>, <<>>, <<>>)
       \/ InitOn(transport, <<NewJob(1, name, "twitch")>>, <<>>, <<FullBoard>>)
       \/ InitOn(transport, <<RedoJob(2, name), DoneJob(1, name)>>,
                 <<DoneProgram(name), DoneProgram(name)>>, <<DonePlacement(name)>>)

SpecSerial == InitSerial /\ [][NextLock]_vars

\* C33: on a serial transport as on TCP, with a responsive controller (the
\* answer to the ping is at hand) and no stream in progress, the ping of the
\* monitor succeeds: connected stays true and no reconnect follows
C33_PingSameOnSerial ==
    [][/\ mon_pc = "recv" /\ mon_pc' # "recv"
       /\ connected /\ connection = "open" /\ rx # <<>> /\ ~engraving
       => mon_pc' = "sleep" /\ connected']_vars

\* C34: a send_command or send_gcode call made while connected is false
\* returns and releases the controller lock whether its reconnect succeeds or
\* fails: it is never left waiting for the lock that it holds itself
C34_ReconnectReturns ==
    /\ ~(sg_pc = "blocked" /\ lock = "stream")
    /\ ~(cmd_pc = "blocked" /\ lock = "cmd")

\* the size find_empty_space validated when it returned text height `target`:
\* the size it was called with, scaled at every shrink down to that height
RECURSIVE ScaledTo(_, _, _)
ScaledTo(size, th, target) ==
    IF th <= target THEN size
    ELSE ScaledTo((size * Shrunk(th)) \div th, Shrunk(th), target)

\* C35: the rectangle recorded for an auto-placed job is the rectangle that
\* find_empty_space validated as free (width and height after all shrinking,
\* at the returned origin), and the compiled program is anchored at its origin
C35_RecordsValidatedRect ==
    [][opc = "engraved" /\ opc' = "finalize" /\ Len(placements') = Len(placements) + 1 =>
          LET p == placements'[Len(placements')]
              w0 == RawWidth(get_job(jobs, job).name, INITIAL_HEIGHT)
          IN  /\ p.width = ScaledTo(w0, INITIAL_HEIGHT, p.text_height_mm)
              /\ p.height = ScaledTo(INITIAL_HEIGHT, INITIAL_HEIGHT, p.text_height_mm)
              /\ _is_space_empty(placements, p.x, p.y, p.width, p.height)
              /\ gcode[2].comment[2] = p.x
              /\ gcode[2].comment[3] = p.y]_vars

\* the line send_command is about to return is the controller's reply to its
\* command: every command written has been answered (replies come in the
\* order of the commands) and the line is the last reply in the buffer
ReplyAtHead ==
    /\ ctl_pending = 0
    /\ Head(rx) \in TerminalLines
    /\ \A k \in 2..Len(rx) : rx[k] \notin TerminalLines

\* C36: the response send_command(c) returns is a line the controller sent
\* in reply to c, never a line left in the receive buffer by an earlier
\* command and never a status report or message
C36_ResponseIsReply ==
    [][cmd_pc = "read" /\ cmd_pc' = "idle" /\ rx # <<>> /\ connection = "open"
          => ReplyAtHead]_vars

\* ------------------------------------------------ a refused job at the head
\* a job waits in front of a full board, names keep arriving, and the board
\* may be cleared from the browser
InitRefuse ==
    \E name \in Names :
       \/ InitWith(<<NewJob(1, name, "twitch")>>, <<>>, <<FullBoard>>)
       \/ InitWith(<<RedoJob(2, name), DoneJob(1, name)>>,
                   <<DoneProgram(name), DoneProgram(name)>>, <<FullBoard>>)

NextRefuse ==
    \/ (nextId < MaxJobs /\ \E name \in Names : enqueue_name(name))
    \/ Orchestrator
    \/ send_gcode
    \/ CtlAck
    \/ NetDrop
    \/ (placements = <<FullBoard>> /\ WebClear)

SpecRefuse == InitRefuse /\ [][NextRefuse]_vars

\* C37: a job refused by the allocator stays the oldest pending job, and the
\* orchestrator claims the oldest pending job: while the job keeps being
\* refused, no job added after it is claimed
C37_RefusedStaysFirst ==
    /\ [][opc = "claimed" /\ opc' = "requeued" =>
             /\ StatusOf(jobs', job) = "pending"
             /\ get_next_pending(jobs') = job
             /\ \A id \in 1..nextId : id > job => StatusOf(jobs', id) = "pending"]_vars
    /\ [][opc = "idle" /\ opc' = "claim" =>
             \A id \in 1..nextId : id < job' => StatusOf(jobs, id) # "pending"]_vars

\* the first job has just been refused while a job added after it waits
C37_Witness ==
    /\ opc = "requeued"
    /\ job = 1
    /\ nextId = 2
    /\ StatusOf(jobs, 1) = "pending"
    /\ StatusOf(jobs, 2) = "pending"

\* position = layout.find_empty_space(width, height, text_height)
OrchAllocate == OrchPlace \/ OrchRefused

\* the queue drained by a controller that answers: the orchestrator running
\* without an exception (every step but the call of find_empty_space), and
\* streams whose every command gets its response within the 60 s of _read_line
OrchLive ==
    \/ OrchSelect
    \/ OrchClaim
    \/ OrchRedo
    \/ OrchRequeued
    \/ OrchCompile
    \/ OrchSave
    \/ OrchRecord
    \/ OrchFinalize
    \/ OrchRelease

SgLive ==
    \/ SgCall
    \/ SgAcquire
    \/ SgFlush
    \/ SgWrite
    \/ SgRead
    \/ SgDone
    \/ SgFinally
    \/ SgUnlock
    \/ SgReturn

NextLive ==
    \/ (nextId < MaxJobs /\ \E name \in Names : enqueue_name(name))
    \/ OrchLive
    \/ OrchAllocate
    \/ SgLive
    \/ CtlAck

\* the worker thread and the controller each keep running: process_queue is
\* one `while True` loop, send_gcode runs in it, the controller answers every
\* command it has received, and find_empty_space returns (its scan is finite),
\* so the thread does not stay in the call for ever
SpecLive ==
    /\ InitQueue
    /\ [][NextLive]_vars
    /\ WF_vars(OrchLive)
    /\ WF_vars(SgLive)
    /\ WF_vars(CtlAck)
    /\ []<>(opc # "claimed")

C39_EngravingOnlyInStream ==
    /\ engraving => lock = "stream" /\ sg_pc \in {"write", "read", "done", "finally"}
    /\ sg_pc \in {"unlock", "return", "idle"} => ~engraving
    /\ lock # "stream" => ~engraving

C39_Witness ==
    /\ sg_pc = "return"
    /\ lock = "free"
    /\ ~engraving
    /\ ~sg_ret[1]
    /\ sg_ret[2] \in {Msg("Send error at line", 2, "OSError"),
                      Msg("Timeout waiting for response at line", 2, commands[2])}

\* C40: in every state of the job store, right after a restart included, a
\* job whose status is finished, failed or stopped has a completed_time, and a
\* job that is pending or active (it was never terminal: no status leaves
\* Terminal) has none.
C40_CompletedTimeIffTerminal ==
    \A n \in 1..Len(jobs) :
        /\ jobs[n].status \in Terminal => jobs[n].completed_time # NULL
        /\ jobs[n].status \in {"pending", "active"} => jobs[n].completed_time = NULL
====
